---- MODULE Spec2Model ----
(***************************************************************************)
(* Model of the HubFeed local agent: the polling loop (core/loop.py), the  *)
(* backend client's cached transport (core/hubfeed_client.py), the parts   *)
(* of the configuration manager the loop reads and writes                  *)
(* (config/manager.py) and the control routes that start and stop the loop *)
(* (api/routes.py).                                                        *)
(*                                                                         *)
(* The program runs on one asyncio event loop: a coroutine runs without    *)
(* interruption from one suspension point (an await that really waits) to  *)
(* the next.  Every action below is one such uninterrupted stretch.        *)
(***************************************************************************)
EXTENDS Integers, Sequences, FiniteSets, TLC

\* ---- bounds of the model ----
MaxJobs == 2        \* jobs in one batch returned by get_tasks()

\* ---- program constants ----
\* a loop that tries a submission four times
max_retries_mut == 3 + 1

max_retries == 3    \* loop.py:204

Callers == {"c1"}                \* request handlers that can be suspended inside stop()
AvatarIds == {"av1"}
NoToken == 0                     \* config "token": None
Tokens == {1}
NoClient == -1                   \* HubfeedClient._client is None
NoTask == 0                      \* AgentLoop._task is None
\* Task objects.  A finished task that nobody awaits is garbage; its id is
\* given to the next task.  One caller can be suspended in stop(), so at most
\* two tasks are alive: the one being cancelled and the one started since.
TaskIds == {1, 2}

VARIABLES
    running,            \* AgentLoop._running
    taskHandle,         \* AgentLoop._task (NoTask or the id of the last task created)
    verified,           \* AgentLoop._verified
    last_avatar_sync,   \* AgentLoop._last_avatar_sync: "none", "recent" (<= 300 s ago), "old"
    token,              \* config.json "token"
    verified_at,        \* config.json "verified_at": "none", "fresh" (< 24 h), "stale"
    polling_interval,   \* config.json platform_config.polling_interval_seconds: "ok" (a number) or "bad"
    avatars,            \* avatars.json: avatar id -> status, "none" when not stored
    status_dirty,       \* ConfigManager._status_dirty
    client,             \* HubfeedClient._client: NoClient or the token it was built with
    loopTasks,          \* the asyncio tasks running AgentLoop._run
    stopCalls,          \* the stop() calls in progress, one slot per caller
    lastOp,             \* the operation that produced this state (observation only)
    quiet,              \* a stop() that found the loop running has returned and no start() was called since
    cached_dialogs,     \* avatars.json: avatar id -> the record holds "cached_dialogs"
    clients,            \* TelegramHandler._clients of each handler object: avatar id -> a connected client is cached
    calls,              \* the call in progress on each handler object: execute_job, get_avatar_dialogs
    result,             \* what the execute_job call that ended with the last step returned (observation only)
    lastCall,           \* the ConfigManager write the last step made (observation only)
    cleanup,            \* the JobExecutor.cleanup call in progress
    health,             \* the AgentLoop.health_check call in progress and what the last one returned
    blacklist,          \* blacklist.json: the global rules and the rules of the avatar
    filter_input,       \* the list of items given to BlacklistFilter.filter
    filtered,           \* the FilterResult of the last call of filter (observation only)
    store,              \* avatars.json: the list of the avatar records, in file order
    payload             \* the avatar list of the sync request that the last step sent (observation only)

vars == <<running, taskHandle, verified, last_avatar_sync, token, verified_at,
          polling_interval, avatars, status_dirty, client, loopTasks,
          stopCalls, lastOp, quiet, cached_dialogs, clients, calls, result, lastCall,
          cleanup, health, blacklist, filter_input, filtered, store, payload>>

\* the avatar file as the list its read-modify-write operations work on
storeVars == <<store, payload>>

\* the state of the blacklist filter, and what no step of the loop, of the
\* handlers or of the filter touches
filterVars == <<blacklist, filter_input, filtered, storeVars>>

\* the state of the job executor, the platform handlers and the avatar routes,
\* with the calls that the loop's own steps leave alone
handlerVars == <<cached_dialogs, clients, calls, result, lastCall, cleanup, health,
                 filterVars>>

\* The handler objects that hold Telegram clients: the job executor's
\* (executor.py:36) and the platform manager's (platforms/manager.py:35),
\* which serves the authentication and dialog routes.
Handlers == {"executor", "platform_manager"}

\* pc: the await the call is suspended at, "connect" (TelegramHandler._get_client),
\* "session" (BrowserHandler._get_session) or "run" (the platform call);
\* copy: the status in the avatar record read at the start of get_avatar_dialogs
IdleHandler == [pc |-> "idle", av |-> "none", command |-> <<>>, copy |-> "none"]
\* keys: the optional keys the result dict holds; logged, history, entry: the
\* calls of history_logger.log_job made for the job, the outcome of the call
\* and what it was given (observation only)
NoEntry == [success |-> FALSE, items_count |-> 0, filtered_count |-> 0, error |-> "none"]
NoResult == [op |-> "none", raised |-> FALSE, success |-> FALSE, error |-> "none",
             provider |-> FALSE, command |-> <<>>, raw |-> <<>>, rules |-> {},
             raw_data |-> <<>>, filtered_count |-> 0, items_count |-> 0, keys |-> {},
             logged |-> 0, history |-> "none", entry |-> NoEntry]
\* audit: the call of history_logger.log_avatar_event the write made: "none"
\* (not called), "ok" or "raised"; raised: the ConfigManager call was left by
\* an exception
NoCall == [op |-> "none", cause |-> "none", av |-> "none", old |-> "none",
           req |-> "none", saved |-> FALSE, dirty |-> FALSE, audit |-> "none",
           raised |-> FALSE]
\* cleanup: pc, the disconnect_all it awaits ("telegram", "browser");
\* telegram: how the Telegram handler's disconnect_all ended; raised: an
\* exception has left cleanup
IdleCleanup == [pc |-> "idle", telegram |-> "none", raised |-> FALSE]

\* health_check: pc "probe" while GET /health is awaited; reachable, raised:
\* what the last call reported ("none": no call has returned yet)
IdleHealth == [pc |-> "idle", reachable |-> "none", raised |-> FALSE]

\* blacklist rules: the lists of keywords, senders and channels
NoRules == [keywords |-> <<>>, senders |-> <<>>, channels |-> <<>>]
NoFilterResult == [op |-> "none", data |-> <<>>, filtered_count |-> 0, reasons |-> <<>>,
                   rules |-> NoRules]
NoPayload == [sent |-> FALSE, avatars |-> <<>>]
FilterIdle ==
    /\ blacklist = [global |-> NoRules, by_avatar |-> NoRules]
    /\ filter_input = <<>>
    /\ filtered = NoFilterResult
    /\ store = <<>>
    /\ payload = NoPayload

HandlersIdle ==
    /\ cached_dialogs = [av \in AvatarIds |-> FALSE]
    /\ clients = [h \in Handlers |-> [av \in AvatarIds |-> FALSE]]
    /\ calls = [h \in Handlers |-> IdleHandler]
    /\ result = NoResult
    /\ lastCall = NoCall
    /\ cleanup = IdleCleanup
    /\ health = IdleHealth
    /\ FilterIdle

\* the fields of AgentLoop that stop() resets, with the task handle
loopFields == <<running, taskHandle, verified, last_avatar_sync>>

\* ---- events a task records about the calls it makes (observation only) ----
\* The log holds the calls of the current iteration since the last call of
\* execute_job, and while execute_job runs also the calls made before it; during
\* the poll wait it is empty unless the iteration's verification failed.
\* e: the call, k: job number, a: attempt number, d: seconds slept, r: outcome
Ev(e, k, a, d, r) == [e |-> e, k |-> k, a |-> a, d |-> d, r |-> r]

\* lastOp: op, the operation; cleanups and closes, the calls of
\* executor.cleanup() and hubfeed_client.close() a returning stop() has made;
\* log, the log of a task that has just ended
Other == [op |-> "other", cleanups |-> 0, closes |-> 0, log |-> <<>>]

\* the log records a verification that failed (no token, or the backend call raised)
VerifyFailedIn(log) ==
    \E i \in 1..Len(log) : log[i].e = "verify" /\ log[i].r \in {"failed", "unconfigured"}

\* pc: the await the task is suspended at; cancel: Task.cancel() was called and
\* CancelledError is not delivered yet; n, k, a: batch length, job number and
\* submit attempt (loop.py:197,205); log, end: observation only; changed: a
\* job of the batch being executed has changed an avatar's status
\* (observation only); owed: "owed" when an avatar's status has changed since
\* this run last read the avatars for a sync, "sent" while a sync call
\* whose payload holds the current statuses is in flight (observation only)
NoSlot == [pc |-> "none", cancel |-> FALSE, phase |-> "init",
           n |-> 0, k |-> 0, a |-> 0, log |-> <<>>, end |-> "none",
           changed |-> FALSE, owed |-> "none"]
NewTask == [NoSlot EXCEPT !.pc = "new"]
\* dropped: the token of the transport that the refresh_config in progress
\* has closed (observation only)
IdleCall == [pc |-> "idle", awaited |-> NoTask, cleanups |-> 0, closes |-> 0, restart |-> FALSE,
             dropped |-> NoClient]

\* a cancel() that has no effect
Cancelled_mut(task) == task

\* Task.cancel(): CancelledError will be thrown into the task at the await it
\* is suspended at; what the task has recorded about its iteration is dropped
Cancelled(task) == [NoSlot EXCEPT !.pc = task.pc, !.cancel = TRUE]

Live(t) == loopTasks[t].pc \notin {"none", "done"}
LiveTasks == {t \in TaskIds : Live(t)}
StopInProgress == \E c \in Callers : stopCalls[c].pc # "idle"

Init ==
    /\ running = FALSE
    /\ taskHandle = NoTask
    /\ verified = FALSE
    /\ last_avatar_sync = "none"
    /\ token \in {NoToken} \cup Tokens
    /\ verified_at = "none"
    /\ polling_interval = "ok"
    /\ avatars \in [AvatarIds -> {"none", "active"}]
    /\ status_dirty = FALSE
    /\ client = NoClient
    /\ loopTasks = [t \in TaskIds |-> NoSlot]
    /\ stopCalls = [c \in Callers |-> IdleCall]
    /\ lastOp = Other
    /\ quiet = FALSE
    /\ HandlersIdle

\* ------------------------------------------------------------------------
\* The loop body.  A stretch of code between two suspension points is a
\* function from the state it reads and writes to that state.
\* ------------------------------------------------------------------------
Pack(t) == [running |-> running, verified |-> verified, verified_at |-> verified_at,
            polling_interval |-> polling_interval,
            last_avatar_sync |-> last_avatar_sync, client |-> client,
            status_dirty |-> status_dirty, task |-> loopTasks[t]]

\* A finished task stays only while AgentLoop._task or a suspended stop()
\* refers to it; otherwise its id is free again.
Referenced(t) == taskHandle = t \/ \E c \in Callers : stopCalls[c].awaited = t
Finished(t, task) ==
    IF task.pc = "done"
    THEN IF Referenced(t) THEN [NoSlot EXCEPT !.pc = "done"] ELSE NoSlot
    ELSE task

Commit(t, s) ==
    /\ running' = s.running
    /\ verified' = s.verified
    /\ verified_at' = s.verified_at
    /\ polling_interval' = s.polling_interval
    /\ last_avatar_sync' = s.last_avatar_sync
    /\ client' = s.client
    /\ status_dirty' = s.status_dirty
    /\ loopTasks' = [loopTasks EXCEPT ![t] = Finished(t, s.task)]
    /\ lastOp' = IF s.task.pc = "done" /\ s.task.end = "verify_failed"
                 THEN [Other EXCEPT !.op = s.task.end, !.log = s.task.log]
                 ELSE Other

Logged(s, ev) == [s EXCEPT !.task.log = Append(@, ev)]
Goto(s, pc) == [s EXCEPT !.task.pc = pc]
Ended(s, how) == [s EXCEPT !.task.pc = "done", !.task.end = how]

is_configured == token # NoToken
HasAvatars == \E av \in AvatarIds : avatars[av] # "none"

\* HubfeedClient._get_client: build the transport from the stored token when
\* none is cached
get_client(s) == IF s.client = NoClient THEN [s EXCEPT !.client = token] ELSE s

\* _run, "except Exception": fatal error
FatalError(s) == Ended([s EXCEPT !.running = FALSE], "fatal")

\* _wait_for_next_poll: read the interval and sleep; asyncio.sleep raises
\* TypeError at once for an interval that is not a number
wait_for_next_poll(s) ==
    IF s.polling_interval = "bad"
    THEN FatalError(s)
    ELSE [s EXCEPT !.task.pc = "wait",
                   !.task.log = IF VerifyFailedIn(@) THEN @ ELSE <<>>]

\* control is at loop.py:105, about to call _wait_for_next_poll
AtWait(s) == Goto([s EXCEPT !.task.changed = FALSE], "at_wait")

\* _sync_avatars up to its backend call; pc "skip" when there is nothing to sync
sync_avatars(s, pc) ==
    IF ~HasAvatars
    THEN Goto(s, "skip")
    ELSE Goto(Logged(get_client([s EXCEPT !.task.owed = IF @ = "owed" THEN "sent" ELSE @]),
                     Ev("sync", 0, 0, 0, "call")), pc)

\* _poll_cycle, "Sync immediately if any avatar status changed"
AfterBatch(s) ==
    LET dirty == s.status_dirty
        s1 == Logged([s EXCEPT !.status_dirty = FALSE, !.task.changed = FALSE],
                     Ev("batch_end", 0, 0, 0, "ok"))
        s2 == sync_avatars(s1, "dirty_sync")
    IN IF dirty /\ s2.task.pc # "skip" THEN s2 ELSE AtWait(s1)

\* a batch that does not look at the running flag
JobHead_mut(s) ==
    IF s.task.k > s.task.n
    THEN AfterBatch(s)
    ELSE Goto(Logged(s, Ev("exec", s.task.k, 0, 0, "call")), "exec")

\* _poll_cycle, head of "for task in tasks" for job s.task.k
JobHead(s) ==
    IF s.task.k > s.task.n \/ ~s.running
    THEN AfterBatch(s)
    ELSE Goto(Logged(s, Ev("exec", s.task.k, 0, 0, "call")), "exec")

\* a loop that starts the next job without submitting the result
SubmitStart_mut(s) == JobHead([s EXCEPT !.task.k = @ + 1, !.task.a = 0])

\* _poll_cycle, one call of submit_result
SubmitStart(s) == Goto(get_client(s), "submit")

\* a fixed retry wait
WaitTime_mut(attempt) == 1

\* the retry wait after failed attempt number attempt (0-based)
WaitTime(attempt) == 2 ^ attempt

\* _poll_cycle, "except Exception" of one submit attempt
SubmitFailed(s) ==
    IF s.task.a < max_retries - 1
    THEN Goto(Logged(s, Ev("sleep", s.task.k, s.task.a, WaitTime(s.task.a), "call")), "retry_sleep")
    ELSE JobHead([s EXCEPT !.task.k = @ + 1, !.task.a = 0])

\* an iteration whose exception ends the loop
PollCycleCaught_mut(s) == FatalError(s)

\* _poll_cycle, "except Exception as e: logger.error(Error polling for tasks)"
PollCycleCaught(s) == AtWait(s)

\* _poll_cycle, the call of get_tasks
FetchStart(s) == Goto(Logged(get_client(s), Ev("fetch", 0, 0, 0, "call")), "fetch")

\* _poll_cycle, "if self._should_sync_avatars()"
should_sync_avatars(s) == s.last_avatar_sync # "recent"

AfterVerify(s) ==
    LET s1 == sync_avatars(s, "sync")
    IN IF should_sync_avatars(s) /\ s1.task.pc # "skip" THEN s1 ELSE FetchStart(s)

\* _verify_token up to its backend call; pc "vfail" when no token is configured
verify_token(s, pc) ==
    IF ~is_configured
    THEN Goto(Logged(s, Ev("verify", 0, 0, 0, "unconfigured")), "vfail")
    ELSE Goto(Logged(get_client(s), Ev("verify", 0, 0, 0, "call")), pc)

\* an iteration that goes on after a failed re-verification
ReverifyFailed_mut(s) == AfterVerify(s)

\* _poll_cycle, "if not await self._verify_token(): return"
ReverifyFailed(s) == AtWait(s)

\* _poll_cycle from its first line
poll_cycle(s) ==
    LET s0 == [s EXCEPT !.task.log = <<>>, !.task.phase = "loop"]
        s1 == verify_token(s0, "verify")
    IN IF ~s0.verified \/ s0.verified_at # "fresh"
       THEN IF s1.task.pc = "vfail" THEN ReverifyFailed(s1) ELSE s1
       ELSE AfterVerify(s0)

\* _run, "while self._running"
LoopHead(s) == IF s.running THEN poll_cycle(s) ELSE Ended(s, "exited")

\* a run that enters its loop without the initial sync
InitialSync_mut(s) == LoopHead(s)

\* _run, "Initial avatar sync"
InitialSync(s) ==
    LET s1 == sync_avatars(s, "sync0")
    IN IF s1.task.pc = "skip" THEN LoopHead(s) ELSE s1

\* a run that ends on a failed initial verification and leaves the flag set
InitialVerifyFailed_mut(s) == Ended(s, "verify_failed")

\* _run, "Token verification failed. Agent will not poll."
InitialVerifyFailed(s) == Ended([s EXCEPT !.running = FALSE], "verify_failed")

\* ------------------------------------------------------------------------
\* The steps of a background task (AgentLoop._run), one per resumption
\* ------------------------------------------------------------------------
TaskFrame == UNCHANGED <<taskHandle, token, stopCalls, quiet, handlerVars>>

\* Some coroutine is between two statements that no await separates: a task
\* at loop.py:105, or the update_config handler between its calls.  Nothing
\* else runs until it has taken its next step.
Busy == \/ \E t \in TaskIds : loopTasks[t].pc = "at_wait"
        \/ \E c \in Callers : stopCalls[c].pc \in {"uc_control", "restart"}

Runnable(t, pcs) == loopTasks[t].pc \in pcs /\ ~loopTasks[t].cancel /\ (Busy => pcs = {"at_wait"})

\* the task runs for the first time: _run up to the verify call
TaskBegin(t) ==
    /\ Runnable(t, {"new"})
    /\ LET s1 == verify_token(Pack(t), "verify0")
       IN Commit(t, IF s1.task.pc = "vfail" THEN InitialVerifyFailed(s1) ELSE s1)
    /\ UNCHANGED avatars
    /\ TaskFrame

VerifyOutcomes == {"ok", "ok_noconfig", "http_error", "bad_payload"}

\* the backend's answer to verify_token arrives (hubfeed_client.verify_token
\* and the rest of _verify_token); interval: the polling interval the
\* answer's config carries
VerifyReturn(t, outcome, interval) ==
    /\ Runnable(t, {"verify0", "verify"})
    /\ LET s0 == Pack(t)
           stored == IF outcome \in {"ok", "bad_payload"}
                     THEN [s0 EXCEPT !.verified_at = "fresh", !.polling_interval = interval]
                     ELSE s0
           okay == outcome \in {"ok", "ok_noconfig"}
           s1 == [stored EXCEPT !.verified = okay]
           s2 == IF okay THEN s1 ELSE Logged(s1, Ev("verify", 0, 0, 0, "failed"))
       IN Commit(t, IF loopTasks[t].pc = "verify0"
                    THEN IF okay THEN InitialSync(s2) ELSE InitialVerifyFailed(s2)
                    ELSE IF okay THEN AfterVerify(s2) ELSE ReverifyFailed(s2))
    /\ UNCHANGED avatars
    /\ TaskFrame

\* the backend's answer to sync_avatars arrives (rest of _sync_avatars)
SyncReturn(t, ok) ==
    /\ Runnable(t, {"sync0", "sync", "dirty_sync"})
    /\ LET s0 == Pack(t)
           s1 == IF ok THEN [s0 EXCEPT !.last_avatar_sync = "recent",
                                       !.task.owed = IF @ = "sent" THEN "none" ELSE @]
                 ELSE [s0 EXCEPT !.task.owed = IF @ = "sent" THEN "owed" ELSE @]
       IN Commit(t, CASE loopTasks[t].pc = "sync0" -> LoopHead(s1)
                      [] loopTasks[t].pc = "sync" -> FetchStart(s1)
                      [] loopTasks[t].pc = "dirty_sync" -> AtWait(s1))
    /\ UNCHANGED avatars
    /\ TaskFrame

\* get_tasks returns n jobs or raises (n = -1)
FetchReturn(t, n) ==
    /\ Runnable(t, {"fetch"})
    /\ LET s0 == Pack(t)
       IN Commit(t, IF n = -1 THEN PollCycleCaught(Logged(s0, Ev("fetch", 0, 0, 0, "raise")))
                    ELSE IF n = 0 THEN AtWait(s0)
                    ELSE JobHead([s0 EXCEPT !.task.n = n, !.task.k = 1, !.task.a = 0]))
    /\ UNCHANGED avatars
    /\ TaskFrame

\* ConfigManager.update_avatar_status on the stored avatars
update_avatar_status(av, status) ==
    IF avatars[av] = "none" THEN avatars ELSE [avatars EXCEPT ![av] = status]
StatusChanged(av, status) == avatars[av] # "none" /\ avatars[av] # status

ExecOutcomes == {"data", "connected", "unauthorized", "raise"}

\* execute_job for the current job returns: with data from a cached session,
\* with data after a new connection (TelegramHandler._get_client marks the
\* avatar active), with a failure result after the session was found
\* unauthorized (the avatar is marked auth_required), or by raising
ExecReturn(t, av, outcome) ==
    /\ Runnable(t, {"exec"})
    /\ LET status == IF outcome = "connected" THEN "active" ELSE "auth_required"
           writes == outcome \in {"connected", "unauthorized"}
           s0 == [Pack(t) EXCEPT !.task.log = <<Ev("exec", loopTasks[t].k, 0, 0, "call")>>]
           s1 == IF writes /\ StatusChanged(av, status)
                 THEN [s0 EXCEPT !.status_dirty = TRUE, !.task.changed = TRUE,
                                 !.task.owed = "owed"]
                 ELSE s0
       IN /\ avatars' = IF writes THEN update_avatar_status(av, status) ELSE avatars
          /\ Commit(t, IF outcome = "raise"
                       THEN PollCycleCaught(Logged(s1, Ev("exec", s0.task.k, 0, 0, "raise")))
                       ELSE SubmitStart(s1))
    /\ TaskFrame

\* submit_result for the current job and attempt returns or raises
SubmitReturn(t, ok) ==
    /\ Runnable(t, {"submit"})
    /\ LET s0 == Pack(t)
           s1 == Logged(s0, Ev("submit", s0.task.k, s0.task.a, 0, IF ok THEN "ok" ELSE "failed"))
       IN Commit(t, IF ok THEN JobHead([s1 EXCEPT !.task.k = @ + 1, !.task.a = 0])
                    ELSE SubmitFailed(s1))
    /\ UNCHANGED avatars
    /\ TaskFrame

\* the retry wait ends: next attempt of "for attempt in range(max_retries)"
RetrySleepReturn(t) ==
    /\ Runnable(t, {"retry_sleep"})
    /\ Commit(t, SubmitStart([Pack(t) EXCEPT !.task.a = @ + 1]))
    /\ UNCHANGED avatars
    /\ TaskFrame

\* a loop that goes from the end of an iteration to the next without waiting
WaitForNextPoll_mut(t) ==
    /\ Runnable(t, {"at_wait"})
    /\ Commit(t, LoopHead(Pack(t)))
    /\ UNCHANGED avatars
    /\ TaskFrame

\* loop.py:105, the call of _wait_for_next_poll; no other coroutine runs
\* between the end of _poll_cycle and this call
WaitForNextPoll(t) ==
    /\ Runnable(t, {"at_wait"})
    /\ Commit(t, wait_for_next_poll(Pack(t)))
    /\ UNCHANGED avatars
    /\ TaskFrame

\* the poll wait ends: back to "while self._running".  Time passes here:
\* syncAged, more than 300 s since the last avatar sync (_should_sync_avatars);
\* verifyAged, 24 h since verified_at (ConfigManager.is_verified)
WaitReturn(t, syncAged, verifyAged) ==
    /\ Runnable(t, {"wait"})
    /\ LET s0 == Pack(t)
           s1 == IF syncAged /\ s0.last_avatar_sync = "recent"
                 THEN [s0 EXCEPT !.last_avatar_sync = "old"] ELSE s0
           s2 == IF verifyAged /\ s1.verified_at = "fresh"
                 THEN [s1 EXCEPT !.verified_at = "stale"] ELSE s1
       IN Commit(t, LoopHead(s2))
    /\ UNCHANGED avatars
    /\ TaskFrame

\* CancelledError is delivered at the await the task is suspended at (or
\* before its first step): "except asyncio.CancelledError" in _run
CancelDelivered(t) ==
    /\ ~Busy
    /\ Live(t)
    /\ loopTasks[t].cancel
    /\ Commit(t, Ended(Pack(t), "cancelled"))
    /\ UNCHANGED avatars
    /\ TaskFrame

\* ------------------------------------------------------------------------
\* AgentLoop.start and AgentLoop.stop
\* ------------------------------------------------------------------------
configVars == <<token, verified_at, polling_interval, avatars, status_dirty, handlerVars>>

\* start(), "self._running = True; self._task = asyncio.create_task(self._run())"
FreeIds == {t \in TaskIds : ~Live(t) /\ \A c \in Callers : stopCalls[c].awaited # t}
CreateTask ==
    /\ FreeIds # {}
    /\ LET new == CHOOSE t \in FreeIds : \A u \in FreeIds : t <= u
       IN /\ running' = TRUE
          /\ taskHandle' = new
          /\ loopTasks' = [t \in TaskIds |-> IF t = new THEN NewTask
                                             ELSE IF t \in FreeIds THEN NoSlot
                                             ELSE loopTasks[t]]
    /\ UNCHANGED <<verified, last_avatar_sync, client>>

\* a start() that does not look at the running flag
StartWhenRunning_mut == CreateTask

\* start(), "if self._running: return"
StartWhenRunning ==
    UNCHANGED <<running, taskHandle, verified, last_avatar_sync, client, loopTasks>>

\* AgentLoop.start, the whole call (it has no await)
start ==
    /\ IF running THEN StartWhenRunning ELSE CreateTask
    /\ lastOp' = [Other EXCEPT !.op = IF running THEN "start_noop" ELSE "other"]
    /\ quiet' = FALSE
    /\ UNCHANGED configVars

\* a stop() that runs its cleanup although the loop is not running
StopWhenNotRunning_mut(c) ==
    /\ stopCalls' = [stopCalls EXCEPT ![c] = [IdleCall EXCEPT !.pc = "cleanup", !.cleanups = 1]]
    /\ UNCHANGED <<running, taskHandle, verified, last_avatar_sync, client, loopTasks>>

\* stop(), "if not self._running: return"
StopWhenNotRunning(c) ==
    UNCHANGED <<running, taskHandle, verified, last_avatar_sync, client, loopTasks, stopCalls>>

\* stop(), after the await of the task: reset the state and call executor.cleanup()
ResetAndCleanup(c) ==
    /\ verified' = FALSE
    /\ last_avatar_sync' = "none"
    /\ stopCalls' = [stopCalls EXCEPT ![c].pc = "cleanup", ![c].awaited = NoTask,
                                      ![c].cleanups = @ + 1]
    /\ LET a == stopCalls[c].awaited
           freed == [loopTasks EXCEPT ![a] = IF taskHandle = a THEN @ ELSE NoSlot]
           \* ids are names only: the remaining task takes the lowest id
           shift == freed[1] = NoSlot /\ freed[2] # NoSlot
       IN /\ loopTasks' = IF shift THEN [t \in TaskIds |-> IF t = 1 THEN freed[2] ELSE NoSlot]
                          ELSE freed
          /\ taskHandle' = IF shift /\ taskHandle = 2 THEN 1 ELSE taskHandle

\* stop() up to its first await; restart: the caller is update_config, which
\* calls start() after stop()
stop(c, restart) ==
    /\ stopCalls[c].pc \in {"idle", "uc_control"}
    /\ IF ~running
       THEN /\ StopWhenNotRunning(c)
            /\ lastOp' = [Other EXCEPT !.op = "stop_noop"]
       ELSE /\ running' = FALSE
            /\ lastOp' = Other
            /\ UNCHANGED <<taskHandle, client>>
            /\ IF taskHandle # NoTask /\ Live(taskHandle)
               THEN /\ loopTasks' = [loopTasks EXCEPT ![taskHandle] = Cancelled(@)]
                    /\ stopCalls' = [stopCalls EXCEPT ![c] =
                           [IdleCall EXCEPT !.pc = "await_task", !.awaited = taskHandle,
                                            !.restart = restart]]
                    /\ UNCHANGED <<verified, last_avatar_sync>>
               ELSE /\ verified' = FALSE
                    /\ last_avatar_sync' = "none"
                    /\ stopCalls' = [stopCalls EXCEPT ![c] =
                           [IdleCall EXCEPT !.pc = "cleanup", !.cleanups = 1,
                                            !.restart = restart]]
                    /\ UNCHANGED loopTasks
    /\ UNCHANGED quiet
    /\ UNCHANGED configVars

\* the awaited task has ended (normally, or cancelled before its first step,
\* which raises CancelledError into stop(), caught at loop.py:70)
StopTaskAwaited(c) ==
    /\ ~Busy
    /\ stopCalls[c].pc = "await_task"
    /\ loopTasks[stopCalls[c].awaited].pc = "done"
    /\ ResetAndCleanup(c)
    /\ lastOp' = Other
    /\ UNCHANGED <<running, client, quiet>>
    /\ UNCHANGED configVars

\* stop() returns to its caller, its hubfeed_client.close() done
StopReturn(c) ==
    /\ stopCalls' = [stopCalls EXCEPT ![c] =
           IF stopCalls[c].restart THEN [IdleCall EXCEPT !.pc = "restart"] ELSE IdleCall]
    /\ lastOp' = [Other EXCEPT !.op = "stop_return", !.cleanups = stopCalls[c].cleanups,
                  !.closes = IF stopCalls[c].pc = "cleanup" THEN stopCalls[c].closes + 1
                             ELSE stopCalls[c].closes]
    /\ quiet' = TRUE

\* executor.cleanup() has returned; stop() calls hubfeed_client.close(), which
\* awaits aclose() only when a transport is cached
CleanupReturn(c) ==
    /\ ~Busy
    /\ stopCalls[c].pc = "cleanup"
    /\ client' = NoClient
    /\ IF client # NoClient
       THEN /\ stopCalls' = [stopCalls EXCEPT ![c].pc = "close", ![c].closes = @ + 1]
            /\ lastOp' = Other
            /\ UNCHANGED quiet
       ELSE StopReturn(c)
    /\ UNCHANGED <<running, taskHandle, verified, last_avatar_sync, loopTasks>>
    /\ UNCHANGED configVars

\* aclose() has returned: HubfeedClient.close sets _client = None and stop() returns
CloseReturn(c) ==
    /\ ~Busy
    /\ stopCalls[c].pc = "close"
    /\ client' = NoClient
    /\ StopReturn(c)
    /\ UNCHANGED <<running, taskHandle, verified, last_avatar_sync, loopTasks>>
    /\ UNCHANGED configVars

\* ------------------------------------------------------------------------
\* Callers: direct calls of the public methods (main.py lifespan, tests) and
\* the control routes of api/routes.py
\* ------------------------------------------------------------------------
Start ==
    /\ ~Busy
    /\ start
    /\ UNCHANGED stopCalls

Stop(c) ==
    /\ ~Busy
    /\ stopCalls[c].pc = "idle"
    /\ stop(c, FALSE)

\* POST /control/start
StartAgent ==
    /\ ~Busy
    /\ is_configured
    /\ ~running
    /\ start
    /\ UNCHANGED stopCalls

\* POST /control/stop
StopAgent(c) ==
    /\ ~Busy
    /\ stopCalls[c].pc = "idle"
    /\ running
    /\ stop(c, FALSE)

\* POST /config with a token: store it and close the cached transport
UpdateConfig(c, tok) ==
    /\ ~Busy
    /\ stopCalls[c].pc = "idle"
    /\ token' = tok
    /\ client' = NoClient
    /\ stopCalls' = [stopCalls EXCEPT ![c].pc =
           IF client # NoClient THEN "uc_close" ELSE "uc_control"]
    /\ lastOp' = Other
    /\ UNCHANGED <<running, taskHandle, verified, last_avatar_sync, loopTasks, quiet>>
    /\ UNCHANGED <<verified_at, polling_interval, avatars, status_dirty, handlerVars>>

\* update_config: its hubfeed_client.close() has returned
UcCloseReturn(c) ==
    /\ ~Busy
    /\ stopCalls[c].pc = "uc_close"
    /\ client' = NoClient
    /\ stopCalls' = [stopCalls EXCEPT ![c].pc = "uc_control"]
    /\ lastOp' = Other
    /\ UNCHANGED <<running, taskHandle, verified, last_avatar_sync, loopTasks, quiet>>
    /\ UNCHANGED configVars

\* update_config: "if agent_loop.is_running: stop(); start() elif is_configured(): start()"
UcControl(c) ==
    /\ stopCalls[c].pc = "uc_control"
    /\ IF running
       THEN stop(c, TRUE)
       ELSE IF is_configured
            THEN /\ start
                 /\ stopCalls' = [stopCalls EXCEPT ![c] = IdleCall]
            ELSE /\ stopCalls' = [stopCalls EXCEPT ![c] = IdleCall]
                 /\ lastOp' = Other
                 /\ UNCHANGED <<running, taskHandle, verified, last_avatar_sync, client,
                                loopTasks, quiet>>
                 /\ UNCHANGED configVars

\* update_config: the start() that follows its stop()
Restart(c) ==
    /\ stopCalls[c].pc = "restart"
    /\ start
    /\ stopCalls' = [stopCalls EXCEPT ![c] = IdleCall]

Next ==
    \/ Start
    \/ StartAgent
    \/ \E c \in Callers : Stop(c)
    \/ \E c \in Callers : StopAgent(c)
    \/ \E c \in Callers : StopTaskAwaited(c)
    \/ \E c \in Callers : CleanupReturn(c)
    \/ \E c \in Callers : CloseReturn(c)
    \/ \E c \in Callers, tok \in Tokens : UpdateConfig(c, tok)
    \/ \E c \in Callers : UcCloseReturn(c)
    \/ \E c \in Callers : UcControl(c)
    \/ \E c \in Callers : Restart(c)
    \/ \E t \in TaskIds : TaskBegin(t)
    \/ \E t \in TaskIds, o \in VerifyOutcomes, i \in {"ok", "bad"} : VerifyReturn(t, o, i)
    \/ \E t \in TaskIds, ok \in BOOLEAN : SyncReturn(t, ok)
    \/ \E t \in TaskIds, n \in -1..MaxJobs : FetchReturn(t, n)
    \/ \E t \in TaskIds, av \in AvatarIds, o \in ExecOutcomes : ExecReturn(t, av, o)
    \/ \E t \in TaskIds, ok \in BOOLEAN : SubmitReturn(t, ok)
    \/ \E t \in TaskIds : RetrySleepReturn(t)
    \/ \E t \in TaskIds : WaitForNextPoll(t)
    \/ \E t \in TaskIds, sa \in BOOLEAN, va \in BOOLEAN : WaitReturn(t, sa, va)
    \/ \E t \in TaskIds : CancelDelivered(t)

Spec == Init /\ [][Next]_vars

\* ------------------------------------------------------------------------
\* Progress.  The loop with start() and stop() as its only callers, under
\* the scheduling of the event loop, which runs every coroutine that is
\* ready: a task that stands between two statements (weak fairness: nothing
\* else runs before it), a task whose cancellation is pending and a stop()
\* whose awaited task, cleanup or close has ended (strong fairness: they are
\* ready except in the instants in which another coroutine stands between
\* two statements).
\* ------------------------------------------------------------------------
LiveNext ==
    \/ Start
    \/ \E c \in Callers : Stop(c)
    \/ \E c \in Callers : StopTaskAwaited(c)
    \/ \E c \in Callers : CleanupReturn(c)
    \/ \E c \in Callers : CloseReturn(c)
    \/ \E t \in TaskIds : TaskBegin(t)
    \/ \E t \in TaskIds, o \in VerifyOutcomes, i \in {"ok", "bad"} : VerifyReturn(t, o, i)
    \/ \E t \in TaskIds, ok \in BOOLEAN : SyncReturn(t, ok)
    \/ \E t \in TaskIds, n \in -1..1 : FetchReturn(t, n)
    \/ \E t \in TaskIds, av \in AvatarIds, o \in ExecOutcomes : ExecReturn(t, av, o)
    \/ \E t \in TaskIds, ok \in BOOLEAN : SubmitReturn(t, ok)
    \/ \E t \in TaskIds : RetrySleepReturn(t)
    \/ \E t \in TaskIds : WaitForNextPoll(t)
    \/ \E t \in TaskIds, sa \in BOOLEAN, va \in BOOLEAN : WaitReturn(t, sa, va)
    \/ \E t \in TaskIds : CancelDelivered(t)

Fairness ==
    /\ WF_vars(\E t \in TaskIds : WaitForNextPoll(t))
    /\ SF_vars(\E t \in TaskIds : CancelDelivered(t))
    /\ SF_vars(\E c \in Callers : StopTaskAwaited(c))
    /\ SF_vars(\E c \in Callers : CleanupReturn(c))
    /\ SF_vars(\E c \in Callers : CloseReturn(c))

LiveSpec == Init /\ [][LiveNext]_vars /\ Fairness

\* ------------------------------------------------------------------------
\* The job executor (core/executor.py), the platform handlers
\* (platforms/telegram.py, platforms/browser.py), the avatar store
\* (config/manager.py) and the dialog route (api/routes.py)
\* ------------------------------------------------------------------------
MaxItems == 2       \* items in one provider result

Statuses == {"active", "auth_required", "failed_reauth", "inactive"}

\* An item a provider returns; a set of blacklist rules is given by the items
\* it matches.
Items == {"a", "b"}
Datas == UNION {[1..n -> Items] : n \in 0..MaxItems}

\* A command is cut into pieces: the prefix up to and including the first ".",
\* then the rest; <<"telegram.", "for", "get_messages">> is the string
\* "telegram.forget_messages".
TelegramCommands == {<<"telegram.", "get_messages">>, <<"telegram.", "get_channel_info">>,
                     <<"telegram.", "list_dialogs">>, <<"telegram.", "search_messages">>}
BrowserCommands == {<<"browser.", "xhr_capture">>}
Commands == {<<"telegram.", "get_messages">>, <<"telegram.", "get_channel_info">>,
             <<"telegram.", "search_messages">>, <<"telegram.", "for", "get_messages">>,
             <<"browser.", "xhr_capture">>, <<"browser.", "get_messages">>,
             <<"discord.", "get_messages">>}

startswith(command, prefix) == Len(command) > 0 /\ command[1] = prefix
endswith(command, suffixes) == Len(command) > 0 /\ command[Len(command)] \in suffixes

\* What get_tasks can hand to execute_job: an element that is no object, an
\* object without "command", an object with a command.
NotAnObject == [object |-> FALSE, has_command |-> FALSE, command |-> <<>>, av |-> "none"]
Jobs == {NotAnObject}
        \cup {[object |-> TRUE, has_command |-> FALSE, command |-> <<>>, av |-> a] :
                a \in AvatarIds}
        \cup {[object |-> TRUE, has_command |-> TRUE, command |-> c, av |-> a] :
                c \in Commands, a \in AvatarIds}

\* BlacklistFilter.filter: the items no rule matches, and the number of items
\* a rule matched
blacklist_filter(data, rules) ==
    [data |-> SelectSeq(data, LAMBDA item : item \notin rules),
     filtered_count |-> Cardinality({i \in 1..Len(data) : data[i] \in rules})]

\* an executor that filters the result of every command
apply_blacklist_mut(command, raw_data, rules) == blacklist_filter(raw_data, rules)

\* JobExecutor._apply_blacklist
apply_blacklist(command, raw_data, rules) ==
    IF ~endswith(command, {"get_messages", "search_messages"})
    THEN [data |-> raw_data, filtered_count |-> 0]
    ELSE blacklist_filter(raw_data, rules)

\* execute_job, the result of its "except Exception"; provider: a provider was invoked
Failure(command, type, provider) ==
    [NoResult EXCEPT !.op = "execute_job", !.error = type, !.provider = provider,
                     !.command = command, !.keys = {"error"}]

\* a result that counts the items the provider returned
ItemsCount_mut(raw, filtered_data) == Len(raw)

\* execute_job, "items_count": len(filtered_data)
ItemsCount(raw, filtered_data) == Len(filtered_data)

\* execute_job, the result of a dispatch that returned raw
Success(command, raw, rules) ==
    LET f == apply_blacklist(command, raw, rules)
    IN [NoResult EXCEPT !.op = "execute_job", !.success = TRUE, !.provider = TRUE,
                        !.command = command, !.raw = raw, !.rules = rules,
                        !.raw_data = f.data, !.filtered_count = f.filtered_count,
                        !.items_count = ItemsCount(raw, f.data),
                        !.keys = {"raw_data", "items_count", "filtered_count"}]

\* What history_logger.log_job does when called: it returns (True, or False
\* when the log file cannot be written; the value is not looked at) or it
\* raises (logger.py:190-230)
HistoryOutcomes == {"ok", "raised"}

\* result.get(key, default) for the keys _log_to_history reads
get(r, key, default) ==
    IF key = "success" THEN r.success
    ELSE IF key \notin r.keys THEN default
    ELSE CASE key = "items_count" -> r.items_count
           [] key = "filtered_count" -> r.filtered_count
           [] key = "error" -> r.error

\* an executor that lets an exception of log_job out of execute_job
log_to_history_mut(r, h) ==
    [r EXCEPT !.logged = @ + 1, !.history = h, !.raised = (h = "raised"),
              !.entry = [success |-> get(r, "success", FALSE),
                         items_count |-> get(r, "items_count", 0),
                         filtered_count |-> get(r, "filtered_count", 0),
                         error |-> get(r, "error", "none")]]

\* JobExecutor._log_to_history: one call of log_job, "except Exception" around it
log_to_history(r, h) ==
    [r EXCEPT !.logged = @ + 1, !.history = h,
              !.entry = [success |-> get(r, "success", FALSE),
                         items_count |-> get(r, "items_count", 0),
                         filtered_count |-> get(r, "filtered_count", 0),
                         error |-> get(r, "error", "none")]]

\* execute_job leaves by an exception (executor.py:53, job.get on a non-object)
Raised == [NoResult EXCEPT !.op = "execute_job", !.raised = TRUE, !.error = "AttributeError"]

\* the status after an authentication failure, given the current status
auth_failure_status(status) ==
    IF status = "auth_required" THEN "failed_reauth" ELSE "auth_required"

\* a rule that always answers auth_required
get_auth_failure_status_mut(av) == "auth_required"

\* ConfigManager.get_auth_failure_status
get_auth_failure_status(av) == auth_failure_status(avatars[av])

\* a flag that is set by every update of an existing avatar
MarkDirty_mut(av, status, saved) == saved /\ avatars[av] # "none"

\* update_avatar_status, "if success and old_status != status"
MarkDirty(av, status, saved) == saved /\ StatusChanged(av, status)

\* save_avatar, "if success and self.history_logger: log_avatar_event(...)":
\* the call is made after a successful write and no try surrounds it; audit:
\* log_avatar_event returns (FALSE: it raises, logger.py:190-230)
AuditRaises(av, saved, audit) == saved /\ avatars[av] # "none" /\ ~audit

\* the history call a write to the record of av makes
Audit(av, saved, audit) ==
    IF ~saved \/ avatars[av] = "none" THEN "none" ELSE IF audit THEN "ok" ELSE "raised"

\* ConfigManager.update_avatar_status as called by a handler; saved: the
\* outcome of the write to avatars.json (JSONStorage.update); an exception of
\* the history call leaves update_avatar_status after the write and before
\* the flag is set
UpdateAvatarStatus(av, status, saved, audit, cause) ==
    /\ avatars' = IF saved THEN update_avatar_status(av, status) ELSE avatars
    /\ status_dirty' = (status_dirty \/ (MarkDirty(av, status, saved)
                                          /\ ~AuditRaises(av, saved, audit)))
    /\ lastCall' = [op |-> "update_avatar_status", cause |-> cause, av |-> av,
                    old |-> avatars[av], req |-> status, saved |-> saved,
                    dirty |-> status_dirty, audit |-> Audit(av, saved, audit),
                    raised |-> AuditRaises(av, saved, audit)]
    /\ UNCHANGED cached_dialogs

\* ConfigManager.save_avatar: the stored record is replaced by the one given;
\* audit: its history call returns (FALSE: it raises, after the write)
SaveAvatar(av, status, dialogs, audit, cause) ==
    /\ avatars' = [avatars EXCEPT ![av] = status]
    /\ cached_dialogs' = [cached_dialogs EXCEPT ![av] = dialogs]
    /\ lastCall' = [op |-> "save_avatar", cause |-> cause, av |-> av,
                    old |-> avatars[av], req |-> status, saved |-> TRUE,
                    dirty |-> status_dirty,
                    audit |-> IF audit THEN "ok" ELSE "raised", raised |-> ~audit]
    /\ UNCHANGED status_dirty

NoWrite ==
    /\ UNCHANGED <<avatars, status_dirty, cached_dialogs>>
    /\ lastCall' = NoCall

\* the loop, the health route and the filter's own state are not touched
CleanupFrame == UNCHANGED <<running, taskHandle, verified, last_avatar_sync, token,
                            verified_at, polling_interval, client, loopTasks,
                            stopCalls, lastOp, quiet, health, filterVars>>

LoopFrame == CleanupFrame /\ UNCHANGED cleanup

\* execute_job ends with result r: "await self._log_to_history(job, result);
\* return result" (log_job has no await that suspends)
Return(r) ==
    /\ calls' = [calls EXCEPT !["executor"] = IdleHandler]
    /\ \E h \in HistoryOutcomes : result' = log_to_history(r, h)

\* execute_job is left by the exception of executor.py:53
Raise ==
    /\ calls' = [calls EXCEPT !["executor"] = IdleHandler]
    /\ result' = Raised

\* the call on handler h goes on to await at pc
Await(h, call, pc) ==
    /\ calls' = [calls EXCEPT ![h] = [call EXCEPT !.pc = pc]]
    /\ result' = NoResult

\* TelegramHandler.execute / BrowserHandler.execute after the client or the
\* session is there: an unknown command raises ValueError before any await
Execute(call, known) ==
    IF call.command \in known
    THEN Await("executor", call, "run")
    ELSE Return(Failure(call.command, "ValueError", TRUE))

\* JobExecutor.execute_job up to its first await; alive: the browser handler
\* holds a live session for the avatar
ExecuteJob(job, alive) ==
    /\ calls["executor"].pc = "idle"
    /\ LET call == [IdleHandler EXCEPT !.av = job.av, !.command = job.command]
       IN IF ~job.object THEN Raise
          ELSE IF ~job.has_command THEN Return(Failure(job.command, "AttributeError", FALSE))
          ELSE IF startswith(job.command, "telegram.")
               THEN IF clients["executor"][job.av] THEN Execute(call, TelegramCommands)
                    ELSE IF avatars[job.av] = "none"
                         THEN Return(Failure(job.command, "ValueError", TRUE))
                         ELSE Await("executor", call, "connect")
          ELSE IF startswith(job.command, "browser.")
               THEN IF alive THEN Execute(call, BrowserCommands)
                    ELSE IF avatars[job.av] = "none"
                         THEN Return(Failure(job.command, "ValueError", TRUE))
                         ELSE Await("executor", call, "session")
          ELSE Return(Failure(job.command, "ValueError", FALSE))
    /\ NoWrite
    /\ UNCHANGED clients
    /\ LoopFrame

\* the call on handler h fails: execute_job returns a failure result,
\* get_avatar_dialogs answers 500
Fail(h) ==
    IF h = "executor"
    THEN Return(Failure(calls[h].command, "Exception", TRUE))
    ELSE /\ calls' = [calls EXCEPT ![h] = IdleHandler]
         /\ result' = NoResult

\* the exception of the history call leaves the call on handler h
Propagate(h) ==
    IF h = "executor"
    THEN Return(Failure(calls[h].command, "KeyError", TRUE))
    ELSE /\ calls' = [calls EXCEPT ![h] = IdleHandler]
         /\ result' = NoResult

\* TelegramHandler._get_client after "await client.connect()" and
\* "await client.is_user_authorized()"
ConnectReturn(h, outcome, saved, audit) ==
    /\ calls[h].pc = "connect"
    /\ LET av == calls[h].av
       IN IF outcome = "authorized"
          THEN /\ clients' = [clients EXCEPT ![h][av] = TRUE]
               /\ UpdateAvatarStatus(av, "active", saved, audit, "telegram_connected")
               /\ IF AuditRaises(av, saved, audit) THEN Propagate(h)
                  ELSE IF h = "executor" THEN Execute(calls[h], TelegramCommands)
                  ELSE Await(h, calls[h], "run")
          ELSE IF outcome = "unauthorized"
          THEN /\ UpdateAvatarStatus(av, "auth_required", saved, audit,
                                     "telegram_unauthorized")
               /\ IF AuditRaises(av, saved, audit) THEN Propagate(h) ELSE Fail(h)
               /\ UNCHANGED clients
          ELSE /\ NoWrite
               /\ Fail(h)
               /\ UNCHANGED clients
    /\ LoopFrame

\* BrowserHandler._get_session after the browser was launched and the login
\* state checked (and the login flow run)
SessionReturn(outcome, saved, audit) ==
    /\ calls["executor"].pc = "session"
    /\ LET av == calls["executor"].av
       IN IF outcome = "logged_in"
          THEN /\ UpdateAvatarStatus(av, "active", saved, audit, "browser_logged_in")
               /\ IF AuditRaises(av, saved, audit) THEN Propagate("executor")
                  ELSE Execute(calls["executor"], BrowserCommands)
          ELSE IF outcome = "login_failed"
          THEN /\ UpdateAvatarStatus(av, get_auth_failure_status(av), saved, audit,
                                     "browser_login_failed")
               /\ IF AuditRaises(av, saved, audit) THEN Propagate("executor")
                  ELSE Fail("executor")
          ELSE /\ NoWrite
               /\ Fail("executor")
    /\ UNCHANGED clients
    /\ LoopFrame

\* the provider returns raw_data; rules: the blacklist rules in force
RunReturn(raw_data, rules) ==
    /\ calls["executor"].pc = "run"
    /\ Return(Success(calls["executor"].command, raw_data, rules))
    /\ NoWrite
    /\ UNCHANGED clients
    /\ LoopFrame

\* the provider raises
RunRaise ==
    /\ calls["executor"].pc = "run"
    /\ Fail("executor")
    /\ NoWrite
    /\ UNCHANGED clients
    /\ LoopFrame

\* GET /avatars/{id}/dialogs up to its first await
GetAvatarDialogs(av, refresh) ==
    /\ calls["platform_manager"].pc = "idle"
    /\ avatars[av] = "active"
    /\ refresh \/ ~cached_dialogs[av]
    /\ Await("platform_manager", [IdleHandler EXCEPT !.av = av, !.copy = avatars[av]],
             IF clients["platform_manager"][av] THEN "run" ELSE "connect")
    /\ NoWrite
    /\ UNCHANGED clients
    /\ LoopFrame

\* get_avatar_dialogs: list_dialogs has returned (ok) or raised; the route
\* answers with the dialogs, or with 500 when anything raised
DialogsReturn(ok, audit) ==
    /\ calls["platform_manager"].pc = "run"
    /\ IF ok
       THEN SaveAvatar(calls["platform_manager"].av, calls["platform_manager"].copy,
                       TRUE, audit, "dialogs")
       ELSE NoWrite
    /\ Fail("platform_manager")
    /\ UNCHANGED clients
    /\ LoopFrame

\* TelegramHandler.complete_auth after the sign-in has succeeded: the record
\* is saved, then the client is cached (not when save_avatar raised)
CompleteAuth(av, audit) ==
    /\ SaveAvatar(av, "active", FALSE, audit, "complete_auth")
    /\ clients' = IF audit THEN [clients EXCEPT !["platform_manager"][av] = TRUE]
                  ELSE clients
    /\ UNCHANGED calls
    /\ result' = NoResult
    /\ LoopFrame

\* a cached client has lost its connection (client.is_connected() is false)
SessionDropped(h, av) ==
    /\ clients[h][av]
    /\ clients' = [clients EXCEPT ![h][av] = FALSE]
    /\ NoWrite
    /\ UNCHANGED calls
    /\ result' = NoResult
    /\ LoopFrame

\* ConfigManager.consume_status_dirty, called by the loop after a batch
ConsumeStatusDirty ==
    /\ status_dirty
    /\ status_dirty' = FALSE
    /\ lastCall' = NoCall
    /\ UNCHANGED <<avatars, cached_dialogs, clients, calls>>
    /\ result' = NoResult
    /\ LoopFrame

\* a cleanup that stops at the first provider whose disconnect_all raises
AfterTelegram_mut(c, ok) ==
    IF ok THEN [c EXCEPT !.pc = "browser", !.telegram = "ok"]
    ELSE [IdleCleanup EXCEPT !.raised = TRUE]

\* cleanup, "try: await self.telegram_handler.disconnect_all() except Exception"
AfterTelegram(c, ok) ==
    [c EXCEPT !.pc = "browser", !.telegram = IF ok THEN "ok" ELSE "raised"]

\* cleanup, "try: await self.browser_handler.disconnect_all() except Exception"
AfterBrowser(c, ok) == IdleCleanup

\* JobExecutor.cleanup up to the await of the Telegram handler's disconnect_all
Cleanup ==
    /\ cleanup.pc = "idle"
    /\ cleanup' = [IdleCleanup EXCEPT !.pc = "telegram"]
    /\ NoWrite
    /\ UNCHANGED <<clients, calls>>
    /\ result' = NoResult
    /\ CleanupFrame

\* TelegramHandler.disconnect_all of the executor's handler has returned
\* (its clients are disconnected and _clients is cleared) or has raised
TelegramDisconnectReturn(ok) ==
    /\ cleanup.pc = "telegram"
    /\ cleanup' = AfterTelegram(cleanup, ok)
    /\ clients' = IF ok THEN [clients EXCEPT !["executor"] = [av \in AvatarIds |-> FALSE]]
                  ELSE clients
    /\ NoWrite
    /\ UNCHANGED calls
    /\ result' = NoResult
    /\ CleanupFrame

\* BrowserHandler.disconnect_all has returned or raised; cleanup returns
BrowserDisconnectReturn(ok) ==
    /\ cleanup.pc = "browser"
    /\ cleanup' = AfterBrowser(cleanup, ok)
    /\ NoWrite
    /\ UNCHANGED <<clients, calls>>
    /\ result' = NoResult
    /\ CleanupFrame

HandlerInit ==
    /\ running = FALSE
    /\ taskHandle = NoTask
    /\ verified = FALSE
    /\ last_avatar_sync = "none"
    /\ token \in Tokens
    /\ verified_at = "none"
    /\ polling_interval = "ok"
    /\ avatars \in [AvatarIds -> {"none"} \cup Statuses]
    /\ status_dirty = FALSE
    /\ client = NoClient
    /\ loopTasks = [t \in TaskIds |-> NoSlot]
    /\ stopCalls = [c \in Callers |-> IdleCall]
    /\ lastOp = Other
    /\ quiet = FALSE
    /\ HandlersIdle

HandlerNext ==
    \/ \E job \in Jobs, alive \in BOOLEAN : ExecuteJob(job, alive)
    \/ \E h \in Handlers, o \in {"authorized", "unauthorized", "raise"},
          saved \in BOOLEAN, audit \in BOOLEAN : ConnectReturn(h, o, saved, audit)
    \/ \E o \in {"logged_in", "login_failed", "raise"}, saved \in BOOLEAN,
          audit \in BOOLEAN : SessionReturn(o, saved, audit)
    \/ \E raw_data \in Datas, rules \in SUBSET Items : RunReturn(raw_data, rules)
    \/ RunRaise
    \/ \E av \in AvatarIds, refresh \in BOOLEAN : GetAvatarDialogs(av, refresh)
    \/ \E ok \in BOOLEAN, audit \in BOOLEAN : DialogsReturn(ok, audit)
    \/ \E av \in AvatarIds, audit \in BOOLEAN : CompleteAuth(av, audit)
    \/ \E h \in Handlers, av \in AvatarIds : SessionDropped(h, av)
    \/ ConsumeStatusDirty

HandlerSpec == HandlerInit /\ [][HandlerNext]_vars

\* JobExecutor.cleanup beside the jobs and the routes that fill and empty the
\* handlers' client caches.  A provider call that returns data (RunReturn)
\* leaves the same executor and caches as one that raises (RunRaise) and
\* differs in the returned result only, which cleanup does not read.
CleanupNext ==
    \/ Cleanup
    \/ \E ok \in BOOLEAN : TelegramDisconnectReturn(ok)
    \/ \E ok \in BOOLEAN : BrowserDisconnectReturn(ok)
    \/ \E job \in Jobs, alive \in BOOLEAN : ExecuteJob(job, alive)
    \/ \E h \in Handlers, o \in {"authorized", "unauthorized", "raise"},
          saved \in BOOLEAN, audit \in BOOLEAN : ConnectReturn(h, o, saved, audit)
    \/ \E o \in {"logged_in", "login_failed", "raise"}, saved \in BOOLEAN,
          audit \in BOOLEAN : SessionReturn(o, saved, audit)
    \/ RunRaise
    \/ \E av \in AvatarIds, refresh \in BOOLEAN : GetAvatarDialogs(av, refresh)
    \/ \E ok \in BOOLEAN, audit \in BOOLEAN : DialogsReturn(ok, audit)
    \/ \E av \in AvatarIds, audit \in BOOLEAN : CompleteAuth(av, audit)
    \/ \E h \in Handlers, av \in AvatarIds : SessionDropped(h, av)

CleanupSpec == HandlerInit /\ [][CleanupNext]_vars

\* ------------------------------------------------------------------------
\* The blacklist filter (blacklist/filter.py) and the rules it is given
\* (ConfigManager.get_avatar_blacklist)
\* ------------------------------------------------------------------------
MaxData == 2        \* items in a list given to filter()

\* A string is the sequence of its characters.  None and a missing key are
\* marked by sequences that are no strings of the model.
None == <<"None">>
Absent == <<"absent">>

\* str.lower()
lower(s) == [i \in 1..Len(s) |-> CASE s[i] = "S" -> "s" [] s[i] = "T" -> "t" [] OTHER -> s[i]]

\* "kw in text" for strings
contains(text, kw) ==
    \E i \in 1..(Len(text) - Len(kw) + 1) : SubSeq(text, i, i + Len(kw) - 1) = kw

\* str(n) for an integer n >= 0
RECURSIVE str(_)
str(n) ==
    LET Digit == <<"0", "1", "2", "3", "4", "5", "6", "7", "8", "9">>
    IN IF n < 10 THEN <<Digit[n + 1]>> ELSE str(n \div 10) \o <<Digit[(n % 10) + 1]>>

\* list(set(list)): the lists that hold each element of list once
Orders(list) ==
    LET S == {list[i] : i \in 1..Len(list)}
    IN {s \in [1..Cardinality(S) -> S] : {s[i] : i \in 1..Cardinality(S)} = S}

\* ---- the lists of items the filter is applied to ----
\* message: the "message" key (Absent, None or a string); caption: the
\* caption of a "media" dict (Absent when there is none); from_id: nothing
\* (missing, None, 0), a string, an integer or a dict with user_id and
\* channel_id (0: missing); peer_id: nothing or a dict with channel_id and
\* chat_id; id: the message id (0: missing).  The lists are every list of
\* one item and the lists of up to MaxData items of a corpus.
FilterInputs ==
    LET NoFrom == [shape |-> "none", s |-> <<>>, n |-> 0, user_id |-> 0, channel_id |-> 0]
        FromStr(s) == [NoFrom EXCEPT !.shape = "str", !.s = s]
        FromInt(n) == [NoFrom EXCEPT !.shape = "int", !.n = n]
        FromDict(u, c) == [NoFrom EXCEPT !.shape = "dict", !.user_id = u, !.channel_id = c]
        NoPeer == [shape |-> "none", channel_id |-> 0, chat_id |-> 0]
        PeerDict(c, g) == [shape |-> "dict", channel_id |-> c, chat_id |-> g]
        Texts == {<<>>, <<"s">>, <<"t">>, <<"S", "t">>}
        FromIds == {NoFrom, FromStr(<<"b">>), FromStr(<<"@", "b">>),
                    FromStr(<<"@", "@", "b">>), FromInt(9), FromDict(7, 0),
                    FromDict(0, 9), FromDict(7, 9), FromDict(0, 0)}
        Messages == [id : {1}, message : {Absent, None} \cup Texts,
                  caption : {Absent, <<>>, <<"s">>}, from_id : FromIds,
                  peer_id : {NoPeer, PeerDict(9, 0), PeerDict(0, 8)}]
        Corpus == {[id |-> 1, message |-> <<"s">>, caption |-> Absent,
                    from_id |-> NoFrom, peer_id |-> NoPeer],
                   [id |-> 2, message |-> <<"t">>, caption |-> Absent,
                    from_id |-> FromStr(<<"b">>), peer_id |-> NoPeer],
                   [id |-> 0, message |-> <<>>, caption |-> <<"s">>,
                    from_id |-> FromInt(9), peer_id |-> PeerDict(9, 0)],
                   [id |-> 3, message |-> Absent, caption |-> Absent,
                    from_id |-> NoFrom, peer_id |-> NoPeer]}
    IN {<<item>> : item \in Messages} \cup UNION {[1..n -> Corpus] : n \in 0..MaxData}

\* the stored blacklist: the global rules and the rules of the avatar
Blacklists ==
    LET KeywordLists == {<<>>, <<<<"S">>>>, <<<<"t">>>>, <<<<"S">>, <<"t">>>>,
                         <<<<"t">>, <<"S">>>>}
        SenderRules == {<<"b">>, <<"@", "b">>, <<"9">>}
        ChannelRules == {<<"9">>}
    IN {[global |-> [keywords |-> k, senders |-> s, channels |-> c],
         by_avatar |-> [NoRules EXCEPT !.keywords = a]] :
           k \in KeywordLists,
           a \in {<<>>, <<<<"t">>>>},
           s \in {<<>>} \cup {<<r>> : r \in SenderRules},
           c \in {<<>>} \cup {<<r>> : r \in ChannelRules}}

\* ConfigManager.get_avatar_blacklist: list(set(global + by_avatar)) for each
\* kind of rule; the order in which a set gives its strings is not fixed (it
\* changes with the hash seed of the process), so every order is a result
get_avatar_blacklist ==
    {[keywords |-> k, senders |-> s, channels |-> c] :
        k \in Orders(blacklist.global.keywords \o blacklist.by_avatar.keywords),
        s \in Orders(blacklist.global.senders \o blacklist.by_avatar.senders),
        c \in Orders(blacklist.global.channels \o blacklist.by_avatar.channels)}

\* ---- BlacklistFilter ----
\* _get_text
get_text(item) ==
    IF item.message # Absent
    THEN IF item.message \in {None, <<>>} THEN <<>> ELSE item.message
    ELSE IF item.caption \notin {Absent, <<>>} THEN item.caption
    ELSE <<>>

\* _get_sender
get_sender(item) ==
    LET from_id == item.from_id
    IN CASE from_id.shape = "none" -> None
         [] from_id.shape = "str" -> IF from_id.s = <<>> THEN None ELSE from_id.s
         [] from_id.shape = "int" -> IF from_id.n = 0 THEN None ELSE str(from_id.n)
         [] from_id.shape = "dict" ->
               IF from_id.user_id # 0 THEN str(from_id.user_id)
               ELSE IF from_id.channel_id # 0 THEN str(from_id.channel_id)
               ELSE None

\* _get_channel
get_channel(item) ==
    LET peer_id == item.peer_id
    IN IF peer_id.shape # "dict" THEN None
       ELSE IF peer_id.channel_id # 0 THEN str(peer_id.channel_id)
       ELSE IF peer_id.chat_id # 0 THEN str(peer_id.chat_id)
       ELSE None

\* _get_item_id
get_item_id(item) == IF item.id = 0 THEN None ELSE str(item.id)

\* a match that asks for equal strings
match_sender_mut(sender, pattern) == sender = pattern

\* _match_sender
match_sender(sender, pattern) ==
    IF sender = pattern THEN TRUE
    ELSE IF startswith(pattern, "@")
         THEN sender = Tail(pattern) \/ sender = pattern
         ELSE sender = pattern \/ sender = <<"@">> \o pattern

\* the first rule of the list that matches: "for rule in rules: if ...: return"
\* (hits: the positions of the rules that match; 0: none does)
first(hits) == IF hits = {} THEN 0 ELSE CHOOSE i \in hits : \A j \in hits : i <= j

keyword_match(item, keyword) == contains(lower(get_text(item)), lower(keyword))
sender_match(item, blocked_sender) ==
    get_sender(item) # None /\ match_sender(get_sender(item), blocked_sender)
channel_match(item, blocked_channel) ==
    get_channel(item) # None /\ get_channel(item) = blocked_channel

\* a check that looks at the senders before the keywords
check_item_mut(item, rules) ==
    LET k == first({j \in 1..Len(rules.keywords) : keyword_match(item, rules.keywords[j])})
        s == first({j \in 1..Len(rules.senders) : sender_match(item, rules.senders[j])})
        c == first({j \in 1..Len(rules.channels) : channel_match(item, rules.channels[j])})
    IN IF s # 0 THEN <<"sender:">> \o rules.senders[s]
       ELSE IF k # 0 THEN <<"keyword:">> \o rules.keywords[k]
       ELSE IF c # 0 THEN <<"channel:">> \o rules.channels[c]
       ELSE None

\* _check_item: the reason f"keyword:{keyword}", f"sender:{blocked_sender}" or
\* f"channel:{blocked_channel}" of the first rule that matches, or None
check_item(item, rules) ==
    LET k == first({j \in 1..Len(rules.keywords) : keyword_match(item, rules.keywords[j])})
        s == first({j \in 1..Len(rules.senders) : sender_match(item, rules.senders[j])})
        c == first({j \in 1..Len(rules.channels) : channel_match(item, rules.channels[j])})
    IN IF k # 0 THEN <<"keyword:">> \o rules.keywords[k]
       ELSE IF s # 0 THEN <<"sender:">> \o rules.senders[s]
       ELSE IF c # 0 THEN <<"channel:">> \o rules.channels[c]
       ELSE None

\* a filter that records the reasons and keeps every item
filter_mut(list, rules) ==
    LET removed == SelectSeq([i \in 1..Len(list) |-> i],
                             LAMBDA i : check_item(list[i], rules) # None)
    IN [op |-> "filter", data |-> list, filtered_count |-> Len(removed),
        reasons |-> [k \in 1..Len(removed) |->
                       [index |-> removed[k] - 1,
                        reason |-> check_item(list[removed[k]], rules),
                        item_id |-> get_item_id(list[removed[k]])]],
        rules |-> rules]

\* BlacklistFilter.filter with the rules get_avatar_blacklist returned
filter(list, rules) ==
    LET removed == SelectSeq([i \in 1..Len(list) |-> i],
                             LAMBDA i : check_item(list[i], rules) # None)
    IN [op |-> "filter",
        data |-> SelectSeq(list, LAMBDA item : check_item(item, rules) = None),
        filtered_count |-> Len(removed),
        reasons |-> [k \in 1..Len(removed) |->
                       [index |-> removed[k] - 1,
                        reason |-> check_item(list[removed[k]], rules),
                        item_id |-> get_item_id(list[removed[k]])]],
        rules |-> rules]

\* one call of BlacklistFilter.filter (it has no await)
Filter ==
    /\ \E rules \in get_avatar_blacklist : filtered' = filter(filter_input, rules)
    /\ UNCHANGED <<blacklist, filter_input, storeVars>>
    /\ UNCHANGED <<running, taskHandle, verified, last_avatar_sync, token, verified_at,
                   polling_interval, avatars, status_dirty, client, loopTasks,
                   stopCalls, lastOp, quiet, cached_dialogs, clients, calls, result,
                   lastCall, cleanup, health>>

FilterInit ==
    /\ running = FALSE
    /\ taskHandle = NoTask
    /\ verified = FALSE
    /\ last_avatar_sync = "none"
    /\ token \in Tokens
    /\ verified_at = "none"
    /\ polling_interval = "ok"
    /\ avatars = [av \in AvatarIds |-> "active"]
    /\ status_dirty = FALSE
    /\ client = NoClient
    /\ loopTasks = [t \in TaskIds |-> NoSlot]
    /\ stopCalls = [c \in Callers |-> IdleCall]
    /\ lastOp = Other
    /\ quiet = FALSE
    /\ cached_dialogs = [av \in AvatarIds |-> FALSE]
    /\ clients = [h \in Handlers |-> [av \in AvatarIds |-> FALSE]]
    /\ calls = [h \in Handlers |-> IdleHandler]
    /\ result = NoResult
    /\ lastCall = NoCall
    /\ cleanup = IdleCleanup
    /\ health = IdleHealth
    /\ blacklist \in Blacklists
    /\ filter_input \in FilterInputs
    /\ filtered = NoFilterResult
    /\ store = <<>>
    /\ payload = NoPayload

FilterSpec == FilterInit /\ [][Filter]_vars

\* ------------------------------------------------------------------------
\* AgentLoop.health_check (core/loop.py) and HubfeedClient.health_check
\* (core/hubfeed_client.py), called by the status routes while the loop runs
\* ------------------------------------------------------------------------
\* health_check up to the probe: "client = await self._get_client()" makes
\* and caches a transport when there is none, then "await client.get(...)"
HealthCheck ==
    /\ ~Busy
    /\ health.pc = "idle"
    /\ client' = get_client([client |-> client]).client
    /\ health' = [IdleHealth EXCEPT !.pc = "probe"]
    /\ UNCHANGED <<running, taskHandle, verified, last_avatar_sync, token, verified_at,
                   polling_interval, avatars, status_dirty, loopTasks, stopCalls,
                   lastOp, quiet, cached_dialogs, clients, calls, result, lastCall,
                   cleanup, filterVars>>

\* the probe answers (ok: status 200) or fails (another status, or an
\* exception that "except Exception" turns into False); the report is then
\* read from the loop's fields
HealthReturn(ok) ==
    /\ ~Busy
    /\ health.pc = "probe"
    /\ health' = [IdleHealth EXCEPT !.reachable = IF ok THEN "yes" ELSE "no"]
    /\ UNCHANGED <<running, taskHandle, verified, last_avatar_sync, token, verified_at,
                   polling_interval, avatars, status_dirty, client, loopTasks,
                   stopCalls, lastOp, quiet, cached_dialogs, clients, calls, result,
                   lastCall, cleanup, filterVars>>

\* the loop polling a backend that has no jobs, its control operations, and
\* the health route
HealthNext ==
    \/ HealthCheck
    \/ \E ok \in BOOLEAN : HealthReturn(ok)
    \/ Start
    \/ \E c \in Callers : Stop(c)
    \/ \E c \in Callers : StopTaskAwaited(c)
    \/ \E c \in Callers : CleanupReturn(c)
    \/ \E c \in Callers : CloseReturn(c)
    \/ \E t \in TaskIds : TaskBegin(t)
    \/ \E t \in TaskIds, o \in VerifyOutcomes, i \in {"ok", "bad"} : VerifyReturn(t, o, i)
    \/ \E t \in TaskIds, ok \in BOOLEAN : SyncReturn(t, ok)
    \/ \E t \in TaskIds, n \in -1..0 : FetchReturn(t, n)
    \/ \E t \in TaskIds : WaitForNextPoll(t)
    \/ \E t \in TaskIds, sa \in BOOLEAN, va \in BOOLEAN : WaitReturn(t, sa, va)
    \/ \E t \in TaskIds : CancelDelivered(t)

HealthSpec == Init /\ [][HealthNext]_vars

\* ------------------------------------------------------------------------
\* The loop run without a Task object: _run() awaited by its caller, as the
\* loop's unit tests do, with stop() called meanwhile.  stop() then finds
\* _task unset and cancels nothing; the loop ends through its flag.
\* ------------------------------------------------------------------------
BatchInit ==
    /\ running = TRUE
    /\ taskHandle = NoTask
    /\ verified = FALSE
    /\ last_avatar_sync = "none"
    /\ token \in Tokens
    /\ verified_at = "none"
    /\ polling_interval = "ok"
    /\ avatars \in [AvatarIds -> {"none", "active"}]
    /\ status_dirty = FALSE
    /\ client = NoClient
    /\ loopTasks = [t \in TaskIds |-> IF t = 1 THEN NewTask ELSE NoSlot]
    /\ stopCalls = [c \in Callers |-> IdleCall]
    /\ lastOp = Other
    /\ quiet = FALSE
    /\ HandlersIdle

BatchNext ==
    \/ \E c \in Callers : Stop(c)
    \/ \E c \in Callers : CleanupReturn(c)
    \/ \E c \in Callers : CloseReturn(c)
    \/ \E t \in TaskIds : TaskBegin(t)
    \/ \E t \in TaskIds, o \in VerifyOutcomes, i \in {"ok", "bad"} : VerifyReturn(t, o, i)
    \/ \E t \in TaskIds, ok \in BOOLEAN : SyncReturn(t, ok)
    \/ \E t \in TaskIds, n \in -1..MaxJobs : FetchReturn(t, n)
    \/ \E t \in TaskIds, av \in AvatarIds, o \in ExecOutcomes : ExecReturn(t, av, o)
    \/ \E t \in TaskIds, ok \in BOOLEAN : SubmitReturn(t, ok)
    \/ \E t \in TaskIds : RetrySleepReturn(t)
    \/ \E t \in TaskIds : WaitForNextPoll(t)
    \/ \E t \in TaskIds, sa \in BOOLEAN, va \in BOOLEAN : WaitReturn(t, sa, va)

BatchSpec == BatchInit /\ [][BatchNext]_vars

\* A route's provider call marks an avatar: TelegramHandler._get_client of
\* the platform manager's handler finds the session unauthorized or
\* authorized and calls update_avatar_status, which sets the dirty flag when
\* the stored status changes; the loop task is suspended at an await
RouteStatusChange(av, status) ==
    /\ ~Busy
    /\ StatusChanged(av, status)
    /\ avatars' = update_avatar_status(av, status)
    /\ status_dirty' = TRUE
    /\ loopTasks' = [t \in TaskIds |->
                        IF Live(t) /\ ~loopTasks[t].cancel
                        THEN [loopTasks[t] EXCEPT !.owed = "owed"]
                        ELSE loopTasks[t]]
    /\ UNCHANGED <<loopFields, token, verified_at, polling_interval, client,
                   stopCalls, lastOp, quiet, handlerVars>>

\* The loop left to itself (no stop() is called), with the routes that mark
\* avatars.  Beside the scheduling, the backend and the clock are taken to
\* behave: a call that is awaited returns, of the verifications and of the
\* avatar syncs that are attempted again and again one is accepted, and of
\* the poll waits that end after a recent sync one ends more than 300 s
\* after it.
SyncNext ==
    \/ \E t \in TaskIds : TaskBegin(t)
    \/ \E t \in TaskIds, o \in VerifyOutcomes, i \in {"ok", "bad"} : VerifyReturn(t, o, i)
    \/ \E t \in TaskIds, ok \in BOOLEAN : SyncReturn(t, ok)
    \/ \E t \in TaskIds, n \in -1..MaxJobs : FetchReturn(t, n)
    \/ \E t \in TaskIds, av \in AvatarIds, o \in ExecOutcomes : ExecReturn(t, av, o)
    \/ \E t \in TaskIds, ok \in BOOLEAN : SubmitReturn(t, ok)
    \/ \E t \in TaskIds : RetrySleepReturn(t)
    \/ \E t \in TaskIds : WaitForNextPoll(t)
    \/ \E t \in TaskIds, sa \in BOOLEAN, va \in BOOLEAN : WaitReturn(t, sa, va)
    \/ \E av \in AvatarIds, st \in {"active", "auth_required"} : RouteStatusChange(av, st)

Backend ==
    /\ WF_vars(\E t \in TaskIds :
                  \/ TaskBegin(t)
                  \/ \E o \in VerifyOutcomes, i \in {"ok", "bad"} : VerifyReturn(t, o, i)
                  \/ \E ok \in BOOLEAN : SyncReturn(t, ok)
                  \/ \E n \in -1..MaxJobs : FetchReturn(t, n)
                  \/ \E av \in AvatarIds, o \in ExecOutcomes : ExecReturn(t, av, o)
                  \/ \E ok \in BOOLEAN : SubmitReturn(t, ok)
                  \/ RetrySleepReturn(t)
                  \/ WaitForNextPoll(t)
                  \/ \E sa \in BOOLEAN, va \in BOOLEAN : WaitReturn(t, sa, va))
    /\ SF_vars(\E t \in TaskIds, i \in {"ok", "bad"} : VerifyReturn(t, "ok", i))
    /\ SF_vars(\E t \in TaskIds : SyncReturn(t, TRUE))
    /\ SF_vars(\E t \in TaskIds, va \in BOOLEAN :
                  WaitReturn(t, TRUE, va) /\ last_avatar_sync = "recent")

SyncSpec == BatchInit /\ [][SyncNext]_vars /\ Backend

\* ------------------------------------------------------------------------
\* refresh_config.  The routes that complete an authentication call it while
\* the loop runs; the token in config.json may have been replaced since the
\* transport was built (ConfigManager.update_config writes the file and
\* leaves the transport alone).  The call in progress is kept in the
\* caller's slot: "rc_close" while close() awaits aclose(), "rc_verify"
\* while _verify_token awaits the backend.
\* ------------------------------------------------------------------------
\* ConfigManager.update_config(token=tok)
TokenStored(tok) ==
    /\ ~Busy
    /\ tok # token
    /\ token' = tok
    /\ lastOp' = Other
    /\ UNCHANGED <<loopFields, verified_at, polling_interval, avatars, status_dirty,
                   client, loopTasks, stopCalls, quiet, handlerVars>>

\* a refresh_config that keeps the cached transport
refresh_close_mut(cl) == cl

\* HubfeedClient.close as refresh_config calls it: the cached transport is
\* closed (httpx marks it closed before aclose() suspends) and dropped
refresh_close(cl) == NoClient

\* refresh_config from "await self._verify_token()" on: an agent without a
\* token returns at once; otherwise the transport is built from the stored
\* token when none is cached and the verify request is sent
RefreshVerify(c, cl) ==
    /\ client' = IF is_configured /\ cl = NoClient THEN token ELSE cl
    /\ stopCalls' = [stopCalls EXCEPT ![c] = IF is_configured THEN [@ EXCEPT !.pc = "rc_verify"]
                                             ELSE IdleCall]
    /\ lastOp' = Other
    /\ UNCHANGED <<loopFields, loopTasks, quiet, configVars>>

\* refresh_config up to its first await
RefreshConfig(c) ==
    /\ ~Busy
    /\ running
    /\ stopCalls[c].pc = "idle"
    /\ IF client # NoClient /\ refresh_close(client) = NoClient
       THEN /\ client' = NoClient
            /\ stopCalls' = [stopCalls EXCEPT ![c].pc = "rc_close", ![c].dropped = client]
            /\ lastOp' = Other
            /\ UNCHANGED <<loopFields, loopTasks, quiet, configVars>>
       ELSE RefreshVerify(c, refresh_close(client))

\* aclose() has returned: close() sets _client = None, _verify_token starts
RefreshCloseReturn(c) ==
    /\ ~Busy
    /\ stopCalls[c].pc = "rc_close"
    /\ RefreshVerify(c, NoClient)

\* the backend's answer to the verify request of refresh_config arrives
RefreshVerifyReturn(c, outcome, interval) ==
    /\ ~Busy
    /\ stopCalls[c].pc = "rc_verify"
    /\ verified' = (outcome \in {"ok", "ok_noconfig"})
    /\ verified_at' = IF outcome \in {"ok", "bad_payload"} THEN "fresh" ELSE verified_at
    /\ polling_interval' = IF outcome \in {"ok", "bad_payload"} THEN interval
                           ELSE polling_interval
    /\ stopCalls' = [stopCalls EXCEPT ![c] = IdleCall]
    /\ lastOp' = Other
    /\ UNCHANGED <<running, taskHandle, last_avatar_sync, token, avatars, status_dirty,
                   client, loopTasks, quiet, handlerVars>>

RefreshNext ==
    \/ \E tok \in {NoToken, 1, 2} : TokenStored(tok)
    \/ \E c \in Callers : RefreshConfig(c)
    \/ \E c \in Callers : RefreshCloseReturn(c)
    \/ \E c \in Callers, o \in VerifyOutcomes, i \in {"ok", "bad"} : RefreshVerifyReturn(c, o, i)
    \/ \E t \in TaskIds : TaskBegin(t)
    \/ \E t \in TaskIds, o \in VerifyOutcomes, i \in {"ok", "bad"} : VerifyReturn(t, o, i)
    \/ \E t \in TaskIds, ok \in BOOLEAN : SyncReturn(t, ok)
    \/ \E t \in TaskIds, n \in -1..1 : FetchReturn(t, n)
    \/ \E t \in TaskIds, av \in AvatarIds, o \in ExecOutcomes : ExecReturn(t, av, o)
    \/ \E t \in TaskIds, ok \in BOOLEAN : SubmitReturn(t, ok)
    \/ \E t \in TaskIds : RetrySleepReturn(t)
    \/ \E t \in TaskIds : WaitForNextPoll(t)
    \/ \E t \in TaskIds, sa \in BOOLEAN, va \in BOOLEAN : WaitReturn(t, sa, va)

RefreshSpec == BatchInit /\ [][RefreshNext]_vars

\* ------------------------------------------------------------------------
\* The avatar file and the sync payload.  avatars.json holds a list of
\* records; ConfigManager reads the list, changes it and writes it back in
\* one call without await.  A key that a record lacks reads as Null
\* (dict.get); name, platform, phone and the timestamps are copied like id
\* and status and are left out.
\* ------------------------------------------------------------------------
Null == "null"
NoSources == [enabled |-> FALSE, items |-> <<>>]
StoreInputs ==
    [id : {Null, "a1", "a2"},
     status : {"active", "auth_required"},
     session_string : {Null, "s1"},
     credentials : {Null, "c1"},
     sources : {NoSources,
                [enabled |-> TRUE, items |-> <<[id |-> "x", last_message_id |-> "m1"]>>]}]

\* the positions of the records with this id
Found(list, id) == {i \in 1..Len(list) : list[i].id = id}

\* a save_avatar that appends whether or not the id is stored
save_avatar_mut(list, avatar) == IF avatar.id = Null THEN list ELSE Append(list, avatar)

\* save_avatar, the updater: the first record with the id is replaced, and
\* the record is appended when there is none; a record without id is refused
save_avatar(list, avatar) ==
    IF avatar.id = Null THEN list
    ELSE IF Found(list, avatar.id) # {}
         THEN LET i == CHOOSE j \in Found(list, avatar.id) :
                           \A k \in Found(list, avatar.id) : j <= k
              IN [list EXCEPT ![i] = avatar]
         ELSE Append(list, avatar)

\* get_avatar for an id that is stored: the first record with the id
get_avatar(list, id) ==
    list[CHOOSE j \in Found(list, id) : \A k \in Found(list, id) : j <= k]

\* delete_avatar, the updater: every record with the id is dropped
delete_avatar(list, id) == SelectSeq(list, LAMBDA a : a.id # id)

\* the entry sync_avatars would send if it copied the record
sync_entry_mut(a) ==
    [id |-> a.id, status |-> a.status, session_string |-> a.session_string,
     metadata |-> [sources_enabled |-> a.sources.enabled, sources |-> a.sources.items]]

\* sync_avatars, the entry built for one avatar: the keys are written out
\* one by one, those of the sources as well
sync_entry(a) ==
    [id |-> a.id, status |-> a.status,
     metadata |-> [sources_enabled |-> a.sources.enabled,
                   sources |-> [i \in 1..Len(a.sources.items) |->
                                   [id |-> a.sources.items[i].id]]]]

\* sync_avatars, "sync_data"
sync_data(list) == [i \in 1..Len(list) |-> sync_entry(list[i])]

\* the write of the changed list, and its record
StoreWrite(list) ==
    /\ store' = list
    /\ payload' = NoPayload
    /\ UNCHANGED <<running, taskHandle, verified, last_avatar_sync, token, verified_at,
                   polling_interval, avatars, status_dirty, client, loopTasks,
                   stopCalls, lastOp, quiet, cached_dialogs, clients, calls, result,
                   cleanup, health, blacklist, filter_input, filtered>>
Written(op, id) ==
    [NoCall EXCEPT !.op = op, !.av = id, !.saved = TRUE,
                   !.old = IF Found(store, id) # {} THEN "stored" ELSE "none"]

\* ConfigManager.save_avatar
StoreSave(avatar) ==
    /\ StoreWrite(save_avatar(store, avatar))
    /\ lastCall' = Written("save_avatar", avatar.id)

\* ConfigManager.update_avatar_status on the list
StoreUpdateStatus(id, status) ==
    /\ Found(store, id) # {}
    /\ StoreWrite(save_avatar(store, [get_avatar(store, id) EXCEPT !.status = status]))
    /\ lastCall' = Written("update_avatar_status", id)

\* ConfigManager.save_avatar_sources, which add_source, remove_source and
\* update_source end with
StoreSaveSources(id, sources) ==
    /\ Found(store, id) # {}
    /\ StoreWrite(save_avatar(store, [get_avatar(store, id) EXCEPT !.sources = sources]))
    /\ lastCall' = Written("save_avatar_sources", id)

\* ConfigManager.delete_avatar
StoreDelete(id) ==
    /\ StoreWrite(delete_avatar(store, id))
    /\ lastCall' = Written("delete_avatar", id)

\* _sync_avatars of the loop: the stored list is read and sent
SyncStored ==
    /\ store # <<>>
    /\ payload' = [sent |-> TRUE, avatars |-> sync_data(store)]
    /\ lastCall' = NoCall
    /\ UNCHANGED store
    /\ UNCHANGED <<running, taskHandle, verified, last_avatar_sync, token, verified_at,
                   polling_interval, avatars, status_dirty, client, loopTasks,
                   stopCalls, lastOp, quiet, cached_dialogs, clients, calls, result,
                   cleanup, health, blacklist, filter_input, filtered>>

StoreNext ==
    \/ \E avatar \in StoreInputs : StoreSave(avatar)
    \/ \E id \in {"a1", "a2"}, status \in {"active", "auth_required"} : StoreUpdateStatus(id, status)
    \/ \E id \in {"a1", "a2"}, sources \in {a.sources : a \in StoreInputs} :
           StoreSaveSources(id, sources)
    \/ \E id \in {"a1", "a2"} : StoreDelete(id)
    \/ SyncStored

\* an agent that has no token and no avatar yet
StoreInit == Init /\ token = NoToken /\ avatars = [av \in AvatarIds |-> "none"]

StoreSpec == StoreInit /\ [][StoreNext]_vars

\* ------------------------------------------------------------------------
\* Properties
\* ------------------------------------------------------------------------
TaskOf(t) == loopTasks[t]
LogOf(t) == loopTasks[t].log

\* a step of task t other than the delivery of its cancellation
TaskWork(t) ==
    \/ TaskBegin(t)
    \/ \E o \in VerifyOutcomes, i \in {"ok", "bad"} : VerifyReturn(t, o, i)
    \/ \E ok \in BOOLEAN : SyncReturn(t, ok)
    \/ \E n \in -1..MaxJobs : FetchReturn(t, n)
    \/ \E av \in AvatarIds, o \in ExecOutcomes : ExecReturn(t, av, o)
    \/ \E ok \in BOOLEAN : SubmitReturn(t, ok)
    \/ RetrySleepReturn(t)
    \/ WaitForNextPoll(t)
    \/ \E sa \in BOOLEAN, va \in BOOLEAN : WaitReturn(t, sa, va)

\* C1: a start() that finds the running flag set creates no task and changes
\* no state, and while the loop is running and no stop() is in progress
\* exactly one background task exists.
C1_StartIdempotent ==
    /\ [](running /\ ~StopInProgress => Cardinality(LiveTasks) = 1)
    /\ [][(running /\ start) =>
            UNCHANGED <<running, taskHandle, verified, last_avatar_sync, client,
                        loopTasks, configVars>>]_vars

C1_Witness ==
    lastOp.op = "start_noop" /\ running /\ Cardinality(LiveTasks) = 1

\* C2: stop() called while the running flag is false calls neither
\* executor.cleanup() nor hubfeed_client.close() and leaves the running flag,
\* the verified flag, the last-sync timestamp and the task handle unchanged.
C2_StopWhenStoppedIsNoop ==
    [][\A c \in Callers : (~running /\ stop(c, FALSE)) =>
            UNCHANGED <<running, verified, last_avatar_sync, taskHandle, client,
                        stopCalls, loopTasks>>]_vars

C2_Witness ==
    lastOp.op = "stop_noop" /\ ~running /\ taskHandle # NoTask
        /\ \A c \in Callers : stopCalls[c] = IdleCall

\* C3: when a stop() that found the loop running returns, the running flag is
\* false, the verified flag is false, the last-sync timestamp is unset and the
\* call has invoked executor.cleanup() and hubfeed_client.close() once each.
C3_StopLeavesStopped ==
    lastOp.op = "stop_return" =>
        /\ ~running
        /\ ~verified
        /\ last_avatar_sync = "none"
        /\ lastOp.cleanups = 1
        /\ lastOp.closes = 1

\* C4: once a stop() that found the loop running has returned, and until a
\* start() is called after that return, the running flag is false and no
\* background task performs a verify, sync, fetch, execute or submit step.
C4_StopQuiesces ==
    /\ [](quiet => ~running)
    /\ [][quiet => ~(\E t \in TaskIds : TaskWork(t))]_vars

\* C5: a run whose initial verification fails (no token, or the verify call
\* raises) clears the running flag and ends, and has called neither
\* get_tasks() nor sync_avatars().
C5_InitialVerifyFailureEndsRun ==
    /\ \A t \in TaskIds :
          Live(t) /\ TaskOf(t).phase = "init" => ~VerifyFailedIn(LogOf(t))
    /\ lastOp.op = "verify_failed" =>
          /\ ~running
          /\ VerifyFailedIn(lastOp.log)
          /\ \A i \in 1..Len(lastOp.log) : lastOp.log[i].e = "verify"

C5_Witness ==
    /\ lastOp.op = "verify_failed"
    /\ \E i \in 1..Len(lastOp.log) : lastOp.log[i].r = "failed"
    /\ ~running

\* the re-verification of task t's current iteration has failed
ReverifyFailedIn(t) ==
    Live(t) /\ TaskOf(t).phase = "loop" /\ VerifyFailedIn(LogOf(t))

\* C6: when re-verification fails inside an iteration, the iteration makes no
\* avatar sync, job fetch or job execution and goes to the poll wait, the
\* running flag is not changed, and the next iteration attempts verification
\* again.
C6_ReverifyFailureSkipsIteration ==
    /\ [](\A t \in TaskIds : ReverifyFailedIn(t) =>
            /\ TaskOf(t).pc \in {"at_wait", "wait"}
            /\ \A i \in 1..Len(LogOf(t)) : LogOf(t)[i].e = "verify")
    /\ [][\A t \in TaskIds :
            /\ (~ReverifyFailedIn(t) /\ ReverifyFailedIn(t)') => running' = running
            /\ (/\ ReverifyFailedIn(t)
                /\ \E sa \in BOOLEAN, va \in BOOLEAN : WaitReturn(t, sa, va))
               => /\ Live(t)'
                  /\ LogOf(t)' # <<>>
                  /\ LogOf(t)'[1].e = "verify"]_vars

C6_Witness ==
    \E t \in TaskIds :
        /\ ReverifyFailedIn(t)
        /\ TaskOf(t).pc = "wait"
        /\ ~TaskOf(t).cancel
        /\ running
        /\ \E i \in 1..Len(LogOf(t)) : LogOf(t)[i].r = "failed"

\* task t's step is the return of a job fetch, a job execution or a result
\* submission that raised
RaisedInIteration(t) ==
    \/ FetchReturn(t, -1)
    \/ \E av \in AvatarIds : ExecReturn(t, av, "raise")
    \/ SubmitReturn(t, FALSE)

\* C7: an exception raised by the job fetch, a job's execution or a result
\* submission is caught: the running flag is unchanged, the task stays alive
\* inside the loop, and when the poll wait ends a further iteration starts.
C7_IterationExceptionsCaught ==
    [][\A t \in TaskIds :
        /\ RaisedInIteration(t) =>
              /\ running' = running
              /\ TaskOf(t)'.pc \in {"at_wait", "retry_sleep", "exec", "dirty_sync"}
        /\ (running /\ \E sa \in BOOLEAN, va \in BOOLEAN : WaitReturn(t, sa, va)) =>
              /\ TaskOf(t)'.pc \in {"verify", "sync", "fetch", "at_wait"}
              /\ TaskOf(t)'.phase = "loop"]_vars

C7_Witness ==
    \E t \in TaskIds :
        /\ TaskOf(t).pc = "at_wait"
        /\ running
        /\ LogOf(t) # <<>>
        /\ LogOf(t)[Len(LogOf(t))].r = "raise"

\* C8: after the initial verification of a run has succeeded, only stop()
\* changes the running flag from true to false.
C8_OnlyStopClearsRunning ==
    [][(running /\ ~running') =>
          \/ \E c \in Callers : stop(c, FALSE) \/ stop(c, TRUE)
          \/ lastOp'.op = "verify_failed"]_vars

\* the event before log[i] is the final submit of job log[i].k - 1
AfterFinalSubmit(log, i) ==
    /\ i > 1
    /\ log[i - 1].e = "submit"
    /\ log[i - 1].k = log[i].k - 1
    /\ (log[i - 1].r = "ok" \/ log[i - 1].a = max_retries - 1)

\* C9: jobs are executed in the order received and one at a time: the
\* execution of job k+1 starts only after the submission of job k's result
\* has succeeded or has failed on its third attempt.
C9_SequentialDispatch ==
    \A t \in TaskIds :
        /\ (TaskOf(t).pc = "exec" /\ ~TaskOf(t).cancel) =>
              /\ Len(LogOf(t)) > 1
              /\ LogOf(t)[Len(LogOf(t))] = Ev("exec", TaskOf(t).k, 0, 0, "call")
        /\ \A i \in 2..Len(LogOf(t)) :
              (LogOf(t)[i].e = "exec" /\ LogOf(t)[i].r = "call") =>
                  IF LogOf(t)[i].k = 1
                  THEN LogOf(t)[i - 1].e = "fetch" /\ LogOf(t)[i - 1].r = "call"
                  ELSE AfterFinalSubmit(LogOf(t), i)

C9_Witness ==
    \E t \in TaskIds :
        /\ TaskOf(t).pc = "exec"
        /\ TaskOf(t).k = 2
        /\ Len(LogOf(t)) > 2
        /\ LogOf(t)[Len(LogOf(t)) - 1].e = "submit"
        /\ LogOf(t)[Len(LogOf(t)) - 1].r = "ok"

\* C10: when every submit attempt for a job fails there are exactly 3
\* attempts, with a wait of 1 s after the first and of 2 s after the second
\* and no wait after the third; then the next job starts or the batch ends.
C10_SubmitRetryBound ==
    \A t \in TaskIds : \A i \in 1..Len(LogOf(t)) :
        LET log == LogOf(t)
            ev == log[i]
            more == i < Len(log)
        IN /\ ev.e = "submit" => ev.a \in 0..2
           /\ (ev.e = "submit" /\ ev.r = "failed" /\ ev.a = 0) =>
                 /\ more
                 /\ log[i + 1] = Ev("sleep", ev.k, 0, 1, "call")
                 /\ (i + 1 < Len(log) => log[i + 2].e = "submit" /\ log[i + 2].a = 1
                                         /\ log[i + 2].k = ev.k)
           /\ (ev.e = "submit" /\ ev.r = "failed" /\ ev.a = 1) =>
                 /\ more
                 /\ log[i + 1] = Ev("sleep", ev.k, 1, 2, "call")
                 /\ (i + 1 < Len(log) => log[i + 2].e = "submit" /\ log[i + 2].a = 2
                                         /\ log[i + 2].k = ev.k)
           /\ (ev.e = "submit" /\ ev.r = "failed" /\ ev.a = 2) =>
                 /\ more
                 /\ \/ log[i + 1] = Ev("exec", ev.k + 1, 0, 0, "call")
                    \/ log[i + 1].e = "batch_end"
           /\ ev.e = "sleep" => i > 1 /\ log[i - 1].e = "submit" /\ log[i - 1].r = "failed"

C10_Witness ==
    \E t \in TaskIds : \E i \in 1..Len(LogOf(t)) :
        /\ i + 5 <= Len(LogOf(t))
        /\ LogOf(t)[i] = Ev("submit", 1, 0, 0, "failed")
        /\ LogOf(t)[i + 2] = Ev("submit", 1, 1, 0, "failed")
        /\ LogOf(t)[i + 4] = Ev("submit", 1, 2, 0, "failed")
        /\ LogOf(t)[i + 5] = Ev("exec", 2, 0, 0, "call")

\* task t's step is the return of a job's execution or of a result submission
BatchStep(t) ==
    \/ \E av \in AvatarIds, o \in ExecOutcomes : ExecReturn(t, av, o)
    \/ \E ok \in BOOLEAN : SubmitReturn(t, ok)

\* C11: when a job of a batch has changed an avatar's status, the step with
\* which the loop leaves the batch calls sync_avatars (before the poll wait of
\* the same iteration), whatever the time since the last sync.
C11_DirtySyncAfterBatch ==
    [][\A t \in TaskIds :
        (/\ BatchStep(t)
         /\ TaskOf(t).changed \/ avatars' # avatars
         /\ TaskOf(t)'.pc \notin {"exec", "submit", "retry_sleep"})
        => TaskOf(t)'.pc = "dirty_sync"]_vars

\* C12: the status chosen after an authentication failure depends on the
\* avatar's current status only: active gives auth_required, auth_required
\* gives failed_reauth, every other status and an unknown avatar give
\* auth_required; a failed browser login requests the status so chosen.
C12_AuthFailureStatusRule ==
    /\ \A av \in AvatarIds :
          get_auth_failure_status(av) =
              CASE avatars[av] = "active" -> "auth_required"
                [] avatars[av] = "auth_required" -> "failed_reauth"
                [] OTHER -> "auth_required"
    /\ lastCall.cause = "browser_login_failed" =>
          lastCall.req = CASE lastCall.old = "active" -> "auth_required"
                           [] lastCall.old = "auth_required" -> "failed_reauth"
                           [] OTHER -> "auth_required"

C12_Witness ==
    /\ lastCall.cause = "browser_login_failed"
    /\ lastCall.old = "auth_required"
    /\ lastCall.saved
    /\ avatars[lastCall.av] = "failed_reauth"

\* C13: an authentication failure of an avatar whose status is failed_reauth
\* leaves the status failed_reauth.
C13_FailedReauthIsAbsorbing ==
    (/\ lastCall.cause \in {"browser_login_failed", "telegram_unauthorized"}
     /\ lastCall.old = "failed_reauth")
    => avatars[lastCall.av] = "failed_reauth"

C15_StatusChangeMarksDirty ==
    /\ [][\A av \in AvatarIds :
            (avatars[av] # "none" /\ avatars'[av] # avatars[av]) => status_dirty']_vars
    /\ [][(status_dirty /\ ~status_dirty') => ConsumeStatusDirty]_vars

\* C16: when job dispatch finds an avatar's Telegram session unauthorized,
\* the status stored afterwards is auth_required for an avatar that was
\* active and failed_reauth for one that was auth_required.
C16_TelegramFailureFollowsRule ==
    (/\ lastCall.cause = "telegram_unauthorized"
     /\ lastCall.saved
     /\ lastCall.old \in {"active", "auth_required"})
    => avatars[lastCall.av] = IF lastCall.old = "active" THEN "auth_required"
                              ELSE "failed_reauth"

\* C17: when get_avatar_dialogs stores the dialogs it has listed, the record
\* keeps the status that was stored just before (the status another call
\* site wrote while the listing was awaited) and holds the dialogs.
C17_NoLostUpdate ==
    lastCall.cause = "dialogs" =>
        /\ avatars[lastCall.av] = lastCall.old
        /\ cached_dialogs[lastCall.av]

\* C18: for every avatar at most one handler object holds a connected
\* Telegram client.
C18_OneSessionPerAvatar ==
    \A av \in AvatarIds : Cardinality({h \in Handlers : clients[h][av]}) <= 1

\* C19: execute_job never raises; a failure result carries an error type; a
\* command whose prefix names no provider gives ValueError and no provider
\* is invoked.
C19_ExecuteJobNeverRaises ==
    result.op = "execute_job" =>
        /\ ~result.raised
        /\ ~result.success => result.error # "none"
        /\ (/\ result.command # <<>>
            /\ ~startswith(result.command, "telegram.")
            /\ ~startswith(result.command, "browser."))
           => result.error = "ValueError" /\ ~result.provider

\* C20: the result of a command that ends in get_messages or search_messages
\* holds the provider's items that no blacklist rule matches, with
\* filtered_count the number of items removed; the result of every other
\* command holds the provider's items unchanged, with filtered_count 0.
C20_FilterOnlyMessageCommands ==
    (result.op = "execute_job" /\ result.success) =>
        IF result.command[Len(result.command)] \in {"get_messages", "search_messages"}
        THEN /\ \A i \in 1..Len(result.raw_data) : result.raw_data[i] \notin result.rules
             /\ result.filtered_count =
                   Cardinality({i \in 1..Len(result.raw) : result.raw[i] \in result.rules})
             /\ Len(result.raw_data) = Len(result.raw) - result.filtered_count
        ELSE result.raw_data = result.raw /\ result.filtered_count = 0

C20_Witness ==
    /\ result.op = "execute_job"
    /\ result.success
    /\ result.command = <<"telegram.", "get_channel_info">>
    /\ result.raw # <<>>
    /\ \A i \in 1..Len(result.raw) : result.raw[i] \in result.rules
    /\ result.filtered_count = 0

\* the result with what the history call recorded about it taken away
Unlogged(r) == [r EXCEPT !.logged = 0, !.history = "none", !.entry = NoEntry]

\* C21: every result of execute_job with success=true holds raw_data and no
\* error, its items_count is the length of raw_data and items_count +
\* filtered_count is the number of items the provider returned; every result
\* with success=false holds an error record and no raw_data.
C21_ResultShape ==
    (result.op = "execute_job" /\ ~result.raised) =>
        IF result.success
        THEN /\ "raw_data" \in result.keys
             /\ "error" \notin result.keys
             /\ result.error = "none"
             /\ result.items_count = Len(result.raw_data)
             /\ result.items_count + result.filtered_count = Len(result.raw)
        ELSE /\ "error" \in result.keys
             /\ result.error # "none"
             /\ "raw_data" \notin result.keys

C21_Witness ==
    /\ result.op = "execute_job"
    /\ result.success
    /\ result.filtered_count > 0
    /\ result.items_count > 0
    /\ result.items_count + result.filtered_count = Len(result.raw)

\* C22: for every job whose execution completes, with success or with a
\* failure, log_job is called exactly once and is given that job's outcome;
\* when the call fails or raises, execute_job does not raise and returns the
\* result it had built.
C22_HistoryLoggedOnce ==
    result.op = "execute_job" =>
        /\ ~result.raised =>
              /\ result.logged = 1
              /\ result.entry.success = result.success
              /\ result.entry.error = result.error
              /\ result.entry.items_count = (IF result.success THEN Len(result.raw_data) ELSE 0)
              /\ result.entry.filtered_count = result.filtered_count
        /\ result.logged > 0 =>
              /\ ~result.raised
              /\ Unlogged(result) =
                    IF result.success
                    THEN Success(result.command, result.raw, result.rules)
                    ELSE Failure(result.command, result.error, result.provider)

C22_Witness ==
    /\ result.op = "execute_job"
    /\ result.history = "raised"
    /\ result.logged = 1
    /\ result.success
    /\ result.raw_data # <<>>
    /\ ~result.raised

\* C23: when the history call made during an avatar status transition
\* raises, update_avatar_status still returns to its caller, and a job whose
\* dispatch made the transition after a successful connection or login does
\* not fail for it (it goes on to the provider call, or fails only for an
\* unknown command).
C23_AuditFailureDoesNotPropagate ==
    (lastCall.op = "update_avatar_status" /\ lastCall.audit = "raised") =>
        /\ ~lastCall.raised
        /\ (/\ lastCall.cause \in {"telegram_connected", "browser_logged_in"}
            /\ result.op = "execute_job")
           => result.error = "ValueError"

\* C24: cleanup goes on to the browser handler's disconnect_all whether the
\* Telegram handler's disconnect_all returned or raised, returns only after
\* the browser handler's disconnect_all, and is never left by an exception.
C24_CleanupAttemptsAll ==
    /\ [](~cleanup.raised)
    /\ [][(cleanup.pc = "telegram" /\ cleanup'.pc # "telegram") =>
             cleanup'.pc = "browser"]_vars
    /\ [][(cleanup.pc # "idle" /\ cleanup'.pc = "idle") => cleanup.pc = "browser"]_vars

C24_Witness ==
    /\ cleanup.pc = "browser"
    /\ cleanup.telegram = "raised"
    /\ ~cleanup.raised

\* ---- the filter's result, read back from the state ----
\* the reason recorded for item i of the input (None: the item was kept)
ReasonAt(i) ==
    LET hits == {k \in 1..Len(filtered.reasons) : filtered.reasons[k].index = i - 1}
    IN IF hits = {} THEN None ELSE filtered.reasons[CHOOSE k \in hits : TRUE].reason
Kind(reason) == IF reason = None THEN "kept" ELSE reason[1]
SomeKeyword(item, rules) == \E j \in 1..Len(rules.keywords) : keyword_match(item, rules.keywords[j])
SomeSender(item, rules) == \E j \in 1..Len(rules.senders) : sender_match(item, rules.senders[j])
SomeChannel(item, rules) == \E j \in 1..Len(rules.channels) : channel_match(item, rules.channels[j])

\* C25: an item is tested against the keyword rules first, then the sender
\* rules, then the channel rules, and the first kind of rule that matches
\* decides the recorded reason; an item that matches none is kept
C25_RuleKindOrder ==
    filtered.op = "filter" =>
        \A i \in 1..Len(filter_input) :
            LET item == filter_input[i]
                rules == filtered.rules
                K == SomeKeyword(item, rules)
                S == SomeSender(item, rules)
                C == SomeChannel(item, rules)
            IN /\ K => Kind(ReasonAt(i)) = "keyword:"
               /\ (~K /\ S) => Kind(ReasonAt(i)) = "sender:"
               /\ (~K /\ ~S /\ C) => Kind(ReasonAt(i)) = "channel:"
               /\ (~K /\ ~S /\ ~C) => Kind(ReasonAt(i)) = "kept"

\* an item that matches a keyword rule, a sender rule and a channel rule
\* was removed for the keyword
C25_Witness ==
    /\ filtered.op = "filter"
    /\ Len(filter_input) = 1
    /\ SomeKeyword(filter_input[1], filtered.rules)
    /\ SomeSender(filter_input[1], filtered.rules)
    /\ SomeChannel(filter_input[1], filtered.rules)
    /\ Kind(ReasonAt(1)) = "keyword:"

\* C26: when an item's text contains several configured keywords, the
\* recorded reason names the one declared earliest in the configured list
\* (the global rules followed by the avatar's), on every run
C26_EarlierKeywordWins ==
    filtered.op = "filter" =>
        \A i \in 1..Len(filter_input) :
            LET declared == blacklist.global.keywords \o blacklist.by_avatar.keywords
                hits == {j \in 1..Len(declared) : keyword_match(filter_input[i], declared[j])}
            IN hits # {} =>
                 ReasonAt(i) = <<"keyword:">> \o declared[CHOOSE j \in hits : \A h \in hits : j <= h]

\* C27: filter() partitions its input: the kept items are the items that
\* match no rule, unmodified and in input order; filtered_count is the
\* number of reasons and the input length minus the kept length; the
\* reasons carry, strictly increasing, the input indexes of exactly the
\* removed items
C27_FilterPartitions ==
    filtered.op = "filter" =>
        LET n == Len(filter_input)
            R == filtered.reasons
            removed == {R[k].index + 1 : k \in 1..Len(R)}
            keptIdx == SelectSeq([i \in 1..n |-> i], LAMBDA i : i \notin removed)
            matching == {i \in 1..n : \/ SomeKeyword(filter_input[i], filtered.rules)
                                      \/ SomeSender(filter_input[i], filtered.rules)
                                      \/ SomeChannel(filter_input[i], filtered.rules)}
        IN /\ filtered.filtered_count = Len(R)
           /\ filtered.filtered_count = n - Len(filtered.data)
           /\ \A k \in 1..(Len(R) - 1) : R[k].index < R[k + 1].index
           /\ removed = matching
           /\ filtered.data = [k \in 1..Len(keptIdx) |-> filter_input[keptIdx[k]]]

\* of two items the first was removed and the second kept
C27_Witness ==
    /\ filtered.op = "filter"
    /\ Len(filter_input) = 2
    /\ filtered.filtered_count = 1
    /\ filtered.reasons[1].index = 0
    /\ filtered.data = <<filter_input[2]>>
    /\ filter_input[1] # filter_input[2]

\* the sender equals the rule, or the rule without its leading @, or the
\* rule with an @ put before it when it has none
TolerantEq(sender, rule) ==
    \/ sender = rule
    \/ Len(rule) > 0 /\ rule[1] = "@" /\ sender = Tail(rule)
    \/ (Len(rule) = 0 \/ rule[1] # "@") /\ sender = <<"@">> \o rule

\* C28: an item that no keyword rule removes is removed for its sender if
\* and only if its sender identifier (a direct id, or the user_id or
\* channel_id of a nested from_id, as a string) equals a blocked-sender rule
\* exactly or up to the rule's leading @; the reason names such a rule
C28_SenderMatch ==
    filtered.op = "filter" =>
        \A i \in 1..Len(filter_input) :
            LET item == filter_input[i]
                sender == get_sender(item)
                rules == filtered.rules.senders
                blocked == {j \in 1..Len(rules) : sender # None /\ TolerantEq(sender, rules[j])}
            IN ~SomeKeyword(item, filtered.rules) =>
                 /\ Kind(ReasonAt(i)) = "sender:" <=> blocked # {}
                 /\ blocked # {} => \E j \in blocked : ReasonAt(i) = <<"sender:">> \o rules[j]

\* sender "b" was removed by rule "@b"
C28_Witness ==
    /\ filtered.op = "filter"
    /\ Len(filter_input) = 1
    /\ filter_input[1].from_id.shape = "str"
    /\ filter_input[1].from_id.s = <<"b">>
    /\ ReasonAt(1) = <<"sender:", "@", "b">>

\* a from_id that only holds channel_id 9 was removed by rule "9"
NestedChannelIdRemoved ==
    /\ filtered.op = "filter"
    /\ Len(filter_input) = 1
    /\ filter_input[1].from_id.shape = "dict"
    /\ filter_input[1].from_id.user_id = 0
    /\ filter_input[1].from_id.channel_id = 9
    /\ ReasonAt(1) = <<"sender:", "9">>

\* C29: the text matched against the keywords is the item's message when
\* that is not empty, and the media caption when the message is absent,
\* null or empty; an item whose text contains a keyword is removed for a
\* keyword
C29_CaptionFallback ==
    filtered.op = "filter" =>
        \A i \in 1..Len(filter_input) :
            LET item == filter_input[i]
                text == IF item.message \in {Absent, None, <<>>}
                        THEN IF item.caption = Absent THEN <<>> ELSE item.caption
                        ELSE item.message
                keywords == filtered.rules.keywords
            IN (\E j \in 1..Len(keywords) : contains(lower(text), lower(keywords[j])))
                 => Kind(ReasonAt(i)) = "keyword:"

\* C30: health_check is a pure read: its steps leave the running flag, the
\* verified flag, the last-sync timestamp, the status-dirty flag, the stored
\* configuration and the cached backend transport as they were, and a
\* failing probe is reported as not reachable without an exception
C30_HealthCheckPureRead ==
    [][(health' # health) =>
          /\ UNCHANGED <<running, verified, last_avatar_sync, status_dirty, token,
                         verified_at, polling_interval, avatars, client>>
          /\ ~health'.raised]_vars

\* C34: every iteration consumes the status-dirty flag: when an iteration
\* that fetched jobs ends (the task goes from the fetch, a job's execution
\* or a result submission to the poll wait), also one whose fetch returned
\* no jobs, the flag is false
C34_DirtyConsumedEveryIteration ==
    [][\A t \in TaskIds :
          (/\ TaskWork(t)
           /\ TaskOf(t).pc \in {"fetch", "exec", "submit"}
           /\ TaskOf(t)'.pc = "at_wait")
          => ~status_dirty']_vars


\* the submit attempts for job k that task t's log holds, and those that failed
SubmitsOf(t, k) == {i \in 1..Len(LogOf(t)) : LogOf(t)[i].e = "submit" /\ LogOf(t)[i].k = k}
FailedOf(t, k) == {i \in SubmitsOf(t, k) : LogOf(t)[i].r = "failed"}

\* C36: for each executed job no submit attempt and no retry wait follows a
\* successful attempt, attempts are numbered without gaps, and once the loop
\* has gone on from the job the number of attempts is min(3, f + 1), f the
\* number of attempts that failed before the first success
C36_SubmitAtMostOnce ==
    \A t \in TaskIds :
        LET log == LogOf(t)
        IN /\ \A i \in 1..Len(log) : \A j \in (i + 1)..Len(log) :
                  (log[i].e = "submit" /\ log[i].r = "ok" /\ log[j].k = log[i].k)
                      => log[j].e \notin {"submit", "sleep"}
           /\ \A i \in 1..Len(log) :
                  log[i].e = "submit" =>
                      Cardinality({j \in SubmitsOf(t, log[i].k) : j <= i}) = log[i].a + 1
           /\ (TaskOf(t).pc \in {"submit", "retry_sleep"} /\ ~TaskOf(t).cancel) =>
                  SubmitsOf(t, TaskOf(t).k) = FailedOf(t, TaskOf(t).k)
           /\ \A i \in 2..Len(log) :
                  (log[i].e \in {"exec", "batch_end"} /\ log[i - 1].e = "submit") =>
                      LET k == log[i - 1].k
                          f == Cardinality(FailedOf(t, k))
                      IN Cardinality(SubmitsOf(t, k)) = IF f + 1 < 3 THEN f + 1 ELSE 3

\* job 1 was submitted at the second attempt and job 2 has started
C36_Witness ==
    \E t \in TaskIds :
        /\ TaskOf(t).pc = "exec"
        /\ TaskOf(t).k = 2
        /\ Cardinality(SubmitsOf(t, 1)) = 2
        /\ Cardinality(FailedOf(t, 1)) = 1

\* C37: the running flag is read before each job: a step that finds it
\* false when a job would start (after the fetch, or after the last submit
\* attempt of the job before) starts no job and no submission, and nothing
\* is executed or submitted after the batch was left
C37_FlagCheckedBeforeEachJob ==
    /\ [][\A t \in TaskIds :
            (~running /\ TaskOf(t)' # TaskOf(t)) =>
                /\ TaskOf(t)'.pc # "exec"
                /\ TaskOf(t)'.pc \in {"submit", "retry_sleep"} =>
                      /\ TaskOf(t).pc \in {"exec", "submit", "retry_sleep"}
                      /\ TaskOf(t)'.k = TaskOf(t).k]_vars
    /\ [](\A t \in TaskIds : \A i \in 1..Len(LogOf(t)) : \A j \in (i + 1)..Len(LogOf(t)) :
            LogOf(t)[i].e = "batch_end" => LogOf(t)[j].e \notin {"exec", "submit", "sleep"})

\* the flag was found false before job 2 of a batch of two, after job 1's
\* result was submitted, and the batch was left
C37_Witness ==
    \E t \in TaskIds :
        /\ ~running
        /\ TaskOf(t).pc \in {"at_wait", "dirty_sync"}
        /\ TaskOf(t).k = 2
        /\ TaskOf(t).n = 2
        /\ Len(LogOf(t)) > 1
        /\ LogOf(t)[Len(LogOf(t))].e = "batch_end"
        /\ LogOf(t)[Len(LogOf(t)) - 1] = Ev("submit", 1, 0, 0, "ok")

\* C38: a run fetches jobs only inside its loop, and it enters the loop only
\* from its own initial verification having succeeded: directly when no
\* avatar is stored (there is nothing to sync), and otherwise through the
\* initial sync_avatars call, which is made right after that verification
\* whatever verified flag and last-sync time an earlier run has left
C38_RunStartsWithVerifyAndSync ==
    /\ [](\A t \in TaskIds :
            (TaskOf(t).pc = "fetch" /\ ~TaskOf(t).cancel) => TaskOf(t).phase = "loop")
    /\ [][\A t \in TaskIds : TaskWork(t) =>
            /\ (TaskOf(t).phase = "init" /\ TaskOf(t)'.phase = "loop") =>
                  \/ TaskOf(t).pc = "verify0" /\ verified' /\ ~HasAvatars
                  \/ TaskOf(t).pc = "sync0"
            /\ (TaskOf(t).pc # "sync0" /\ TaskOf(t)'.pc = "sync0") =>
                  /\ TaskOf(t).pc = "verify0"
                  /\ verified'
                  /\ HasAvatars
                  /\ TaskOf(t)'.log = <<Ev("verify", 0, 0, 0, "call"), Ev("sync", 0, 0, 0, "call")>>
            /\ (TaskOf(t).pc = "verify0" /\ TaskOf(t)'.pc \notin {"verify0", "sync0"}
                /\ ~TaskOf(t).cancel /\ verified' /\ HasAvatars) => FALSE]_vars

\* a run makes its initial sync call although an earlier run has left the
\* verified flag set and a recent last-sync time
C38_Witness ==
    \E t \in TaskIds :
        /\ TaskOf(t).pc = "sync0"
        /\ ~TaskOf(t).cancel
        /\ last_avatar_sync = "recent"

\* C39: an iteration makes at most one job fetch and at most one
\* re-verification attempt, and a task that has started an iteration (it has
\* fetched, or its re-verification has failed, or a call of the iteration has
\* raised) starts no further verification, sync or fetch before it has been
\* in the poll wait: from the end of an iteration it goes to the poll wait
\* (or ends), and only the end of that wait leads to the next iteration
C39_WaitBetweenIterations ==
    /\ [](\A t \in TaskIds :
            /\ Cardinality({i \in 1..Len(LogOf(t)) :
                              LogOf(t)[i].e = "fetch" /\ LogOf(t)[i].r = "call"}) <= 1
            /\ Cardinality({i \in 1..Len(LogOf(t)) :
                              LogOf(t)[i].e = "verify" /\ LogOf(t)[i].r # "failed"}) <= 1)
    /\ [][\A t \in TaskIds : TaskWork(t) =>
            /\ TaskOf(t)'.pc = "fetch" =>
                  TaskOf(t).pc \in {"verify0", "sync0", "verify", "sync", "wait"}
            /\ TaskOf(t)'.pc = "verify" => TaskOf(t).pc \in {"verify0", "sync0", "wait"}
            /\ TaskOf(t)'.pc = "sync" => TaskOf(t).pc \in {"verify0", "sync0", "verify", "wait"}
            /\ TaskOf(t).pc = "at_wait" => TaskOf(t)'.pc \in {"wait", "done", "none"}
            /\ TaskOf(t)'.pc = "wait" => TaskOf(t).pc = "at_wait"]_vars

\* a task is in the poll wait after an iteration whose re-verification call
\* raised
C39_Witness ==
    \E t \in TaskIds :
        /\ TaskOf(t).pc = "wait"
        /\ ~TaskOf(t).cancel
        /\ TaskOf(t).phase = "loop"
        /\ LogOf(t) = <<Ev("verify", 0, 0, 0, "call"), Ev("verify", 0, 0, 0, "failed")>>

\* C40: a stop() that found the loop running returns: the task it awaits
\* has been cancelled (or has ended), a cancelled task takes no further loop
\* step, only the delivery of the cancellation at the await it is suspended
\* at, and the call gets through its awaits of the task, of the cleanup and
\* of the close
C40_StopReturns ==
    /\ [](\A c \in Callers : stopCalls[c].pc = "await_task" =>
            \/ TaskOf(stopCalls[c].awaited).cancel
            \/ TaskOf(stopCalls[c].awaited).pc = "done")
    /\ [][\A t \in TaskIds : TaskOf(t).cancel => ~TaskWork(t)]_vars
    /\ \A c \in Callers :
          (stopCalls[c].pc \in {"await_task", "cleanup", "close"})
              ~> (stopCalls[c].pc \notin {"await_task", "cleanup", "close"})

\* stop() awaits a task that was cancelled while it awaited a job's execution
C40_Witness ==
    \E c \in Callers :
        /\ stopCalls[c].pc = "await_task"
        /\ TaskOf(stopCalls[c].awaited).cancel
        /\ TaskOf(stopCalls[c].awaited).pc = "exec"

\* the step is the arrival of the backend's acceptance of a sync of task t
\* whose payload holds the avatars' current statuses
SyncAccepted(t) == SyncReturn(t, TRUE) /\ TaskOf(t).owed = "sent"

\* the run of task t has passed its initial verification and an avatar's
\* status has changed since the last sync of the run that was accepted
Owes(t) == Live(t) /\ ~TaskOf(t).cancel /\ TaskOf(t).phase = "loop" /\ TaskOf(t).owed # "none"

\* C35: when an avatar's status has changed while the loop runs, and the
\* loop is not stopped and the backend comes to accept syncs, a sync call
\* that carries the current status succeeds: the run keeps what it owes
\* until a sync that carries it is accepted, and it does not owe it for ever
\* once the statuses have stopped changing
C35_StatusEventuallySynced ==
    /\ [][\A t \in TaskIds : (Owes(t) /\ TaskWork(t)) => (Owes(t)' \/ SyncAccepted(t))]_vars
    /\ (<>[][avatars' = avatars]_vars) => \A t \in TaskIds : Owes(t) ~> ~Owes(t)

\* a step of the refresh_config call of caller c
RefreshStep(c) ==
    \/ RefreshConfig(c)
    \/ RefreshCloseReturn(c)
    \/ \E o \in VerifyOutcomes, i \in {"ok", "bad"} : RefreshVerifyReturn(c, o, i)

\* C31: no step of refresh_config changes the running flag or the loop's
\* task, whatever the verification answers; its first step drops the cached
\* transport, its verify request is sent on a transport built from the token
\* stored at that time, and every transport built at any time is built from
\* the token stored then
C31_RefreshKeepsLoopAndDropsTransport ==
    /\ [][\A c \in Callers : RefreshStep(c) =>
              UNCHANGED <<running, taskHandle, loopTasks>>]_vars
    /\ [][\A c \in Callers : RefreshConfig(c) =>
              \/ client' = NoClient
              \/ stopCalls'[c].pc = "rc_verify" /\ client = NoClient]_vars
    /\ [][\A c \in Callers :
              (stopCalls[c].pc # "rc_verify" /\ stopCalls'[c].pc = "rc_verify") =>
                  client' = token]_vars
    /\ [][client' \notin {client, NoClient} => client' = token']_vars

\* refresh_config was called with a transport cached that was built from a
\* token other than the stored one, has closed it, and awaits the answer to
\* a verify request sent with the stored token; the loop's task is alive
C31_Witness ==
    \E c \in Callers :
        /\ stopCalls[c].pc = "rc_verify"
        /\ stopCalls[c].dropped \notin {NoClient, token}
        /\ client = token
        /\ running
        /\ \E t \in TaskIds : Live(t) /\ TaskOf(t).pc = "fetch"

\* the lists that differ from list in session_string and credentials fields only
SecretVariants(list) ==
    {[i \in 1..Len(list) |-> [list[i] EXCEPT !.session_string = f[i][1],
                                             !.credentials = f[i][2]]] :
        f \in [1..Len(list) -> {Null, "s1", "s2"} \X {Null, "c1", "c2"}]}

SecretKeys == {"session_string", "credentials"}

\* C32: the avatar list that sync_avatars sends is the same for all avatar
\* lists that differ only in session_string and credentials fields, and no
\* entry of it, no metadata of an entry and no source of an entry has a key
\* session_string or credentials
C32_PayloadIndependentOfSecrets ==
    /\ [][SyncStored => \A other \in SecretVariants(store) :
                            sync_data(other) = payload'.avatars]_vars
    /\ [](\A i \in 1..Len(payload.avatars) :
            LET e == payload.avatars[i]
            IN /\ DOMAIN e \cap SecretKeys = {}
               /\ DOMAIN e.metadata \cap SecretKeys = {}
               /\ \A j \in 1..Len(e.metadata.sources) :
                      DOMAIN e.metadata.sources[j] \cap SecretKeys = {})

\* a list of two avatars, one with a session string and one with
\* credentials, has been sent
C32_Witness ==
    /\ payload.sent
    /\ Len(payload.avatars) = 2
    /\ \E i, j \in 1..Len(store) :
          /\ store[i].session_string # Null
          /\ store[j].credentials # Null
          /\ store[j].sources.enabled

\* no two records of the avatar file have the same id
UniqueIds(list) == \A i, j \in 1..Len(list) : list[i].id = list[j].id => i = j

\* C33: the stored avatars have pairwise different ids, and a save of a
\* record whose id is stored puts the record in the place of the stored one
\* and leaves the other records and the length of the list as they are
C33_StoredIdsUnique ==
    /\ [](UniqueIds(store) /\ \A i \in 1..Len(store) : store[i].id # Null)
    /\ [][\A avatar \in StoreInputs :
              (/\ lastCall'.op = "save_avatar"
               /\ lastCall'.av = avatar.id
               /\ Found(store, avatar.id) # {}
               /\ StoreSave(avatar)) =>
                  /\ Len(store') = Len(store)
                  /\ \A i \in 1..Len(store) :
                        store'[i] = IF store[i].id = avatar.id THEN avatar ELSE store[i]]_vars

\* a record was saved over a stored one with the same id while another
\* avatar is stored as well
C33_Witness ==
    /\ lastCall.op = "save_avatar"
    /\ lastCall.old = "stored"
    /\ Len(store) = 2
    /\ \E i \in 1..Len(store) : store[i].id = lastCall.av /\ store[i].status = "auth_required"

====
